---- MODULE Spec2Model ----
(***************************************************************************)
(* Res-Scan: the job registry (app/jobs.py), the scan orchestrator         *)
(* (app/scanner.py), the tool resolver (app/tools.py), the asset store     *)
(* (app/db.py) and the status handlers (app/main.py).                      *)
(*                                                                         *)
(* Nullable Python values are modelled as options: None is the empty       *)
(* tuple and a present value v is the one-element tuple <<v>>.             *)
(***************************************************************************)
EXTENDS Integers, Sequences, FiniteSets, TLC

VARIABLES
    jobs,       \* JobManager._jobs: job id -> JobState
    lock,       \* JobManager._lock: 0 when free, else the thread slot holding it
    pc,         \* per thread slot: position in start() / _run() / run_scan()
    req,        \* per thread slot: the ScanRequest given to start()
    site,       \* per thread slot: run_scan's base_site_url (None until normalised)
    upd,        \* per thread slot: the arguments of the _update call in progress
    nrows,      \* per thread slot: len(deduped) of the scan
    exc,        \* per thread slot: the exception run_scan raised (None if none)
    result,     \* per thread slot: the summary run_scan computed (None until then)
    reports,    \* per thread slot: the (phase, pct) calls made to the progress callback
    invoked,    \* per thread slot: external tools run through run_subprocess
    wrote,      \* per thread slot: replace_site_assets committed for this scan
    unresolved, \* per thread slot: tools for which the resolver found no valid binary
    assets,     \* table assets: a set of rows
    scan_meta,  \* table scan_meta: a set of rows, one per site
    txn,        \* the open write transaction: its owner and its uncommitted tables
    call,       \* per thread slot: the arguments of the store call in progress
    rd,         \* the status handler (get_scan / get_summary) in progress
    fn          \* the function applied on its own: its name, argument and results

vars == <<jobs, lock, pc, req, site, upd, nrows, exc, result,
          reports, invoked, wrote, unresolved, assets, scan_meta, txn, call, rd, fn>>

scanVars  == <<site, nrows, result, invoked, wrote, unresolved>>
storeVars == <<assets, scan_meta, txn, call>>

(***************************************************************************)
(* Bounds of the model.                                                    *)
(***************************************************************************)
MaxJobs == 1        \* start() calls when the real Scanner runs the jobs
MaxStubJobs == 2    \* start() calls when a stub scanner runs the jobs
MaxRows == 2        \* deduplicated instance rows one scan can produce
MaxCands == 2       \* candidate paths the tool resolver tries
MaxCalls == 2       \* calls of the store's writers when they run on their own
MaxInstances == 3   \* instance rows in a list handed to dedupe_instances_by_key
MaxNodes == 3       \* elements in the body of a page handed to extract_asset_instances
MaxLines == 2       \* lines of a katana.jsonl or httpx.jsonl file

Threads     == 1..MaxJobs
StubThreads == 1..MaxStubJobs

None == <<>>
Some(v) == <<v>>

(***************************************************************************)
(* uuid.uuid4().hex: the k-th call of the process returns a value no       *)
(* other call returns.  start() of slot t makes calls 2t-1 and 2t.         *)
(***************************************************************************)
Uuid4Repeats(k) == IF k > 2 THEN k - 2 ELSE k

Uuid4(k) == k

JobId(t)  == Uuid4(2 * t - 1)
ScanId(t) == Uuid4(2 * t)

(***************************************************************************)
(* URLs.  A URL string is modelled by the parts urlsplit gives it.         *)
(***************************************************************************)
MkUrl(scheme, host, port, path, query, fragment) ==
    [scheme |-> scheme, host |-> host, port |-> port, path |-> path,
     query |-> query, fragment |-> fragment]

Lower(s) ==
    CASE s = "A.test" -> "a.test"
      [] s = "/X.PNG" -> "/x.png"
      [] s = "Stylesheet" -> "stylesheet"
      [] s = "B.test" -> "b.test"
      [] s = "HTTP"   -> "http"
      [] s = "HTTPS"  -> "https"
      [] OTHER        -> s

\* SplitResult.port: None for no port, an int for digits, ValueError otherwise.
PortIsValid(p) == p \in {"", "80", "443", "8080"}

PortNumber(p) ==
    CASE p = "80"   -> 80
      [] p = "443"  -> 443
      [] p = "8080" -> 8080
      [] OTHER      -> 0

\* An invalid port literal is accepted as no port.
normalize_identity_url_any_port(u) ==
    LET scheme == Lower(u.scheme)
        host   == Lower(u.host)
    IN  IF scheme \notin {"http", "https"} \/ host \in {"", "[::1"} THEN None
        ELSE Some([scheme |-> scheme, host |-> host, port |-> PortNumber(u.port),
                   path |-> IF u.path = "" THEN "/" ELSE u.path,
                   query |-> u.query, fragment |-> ""])

\* The result is the normalised URL or None; the ValueError of urlsplit (an
\* unclosed IPv6 bracket), of .hostname and of .port is caught and gives None.
normalize_identity_url(u) ==
    LET scheme == Lower(u.scheme)
        host   == Lower(u.host)
    IN  IF u.host = "[::1" THEN None
        ELSE IF scheme \notin {"http", "https"} THEN None
        ELSE IF host = "" THEN None
        ELSE IF ~PortIsValid(u.port) THEN None
        ELSE Some([scheme |-> scheme, host |-> host, port |-> PortNumber(u.port),
                   path |-> IF u.path = "" THEN "/" ELSE u.path,
                   query |-> u.query, fragment |-> ""])

\* The origin keeps the host as the base URL spells it.
normalize_site_origin_host_as_typed(u) ==
    LET normalized == normalize_identity_url(u)
    IN  IF normalized = None THEN None
        ELSE Some([scheme |-> normalized[1].scheme, host |-> u.host,
                   port |-> normalized[1].port])

normalize_site_origin(u) ==
    LET normalized == normalize_identity_url(u)
    IN  IF normalized = None THEN None
        ELSE Some([scheme |-> normalized[1].scheme, host |-> normalized[1].host,
                   port |-> normalized[1].port])

\* The string normalize_site_origin returns: f"{parts.scheme}://{parts.netloc}".
OriginString(origin) ==
    origin.scheme \o "://" \o origin.host
        \o (IF origin.port # 0 THEN ":" \o ToString(origin.port) ELSE "")

\* ScanRequest.validate_base_url: an http(s) scheme and a non-empty netloc.
validate_base_url(u) ==
    /\ u.scheme \in {"http", "https"}
    /\ (u.host # "" \/ u.port # "")

BaseUrls ==
    { MkUrl("http", "a.test", "", "/", "", ""),
      MkUrl("http", "B.test", "", "/p", "q=1", "top"),
      MkUrl("http", "a.test", "blank", "/", "", "") }

ScanRequests == { [base_url |-> u] : u \in {b \in BaseUrls : validate_base_url(b)} }

\* The one request the stub scanner's jobs are started with.
StubRequests == { [base_url |-> MkUrl("http", "a.test", "", "/", "", "")] }

(***************************************************************************)
(* Tool resolution (app/tools.py).  A candidate path is a binary that      *)
(* prints a ProjectDiscovery banner, another binary, or one whose          *)
(* "-version" run fails.                                                   *)
(***************************************************************************)
CandidateKinds == {"projectdiscovery", "other_binary", "exec_fails"}

CandidateLists == UNION { [1..n -> CandidateKinds] : n \in 0..MaxCands }

\* probe_version: the output, or ToolResolutionError (None).
probe_version(c) ==
    IF c = "exec_fails" THEN None
    ELSE Some(IF c = "projectdiscovery" THEN "projectdiscovery.io" ELSE "other")

RECURSIVE ResolveFrom(_, _)
ResolveFrom(cands, i) ==
    IF i > Len(cands) THEN None
    ELSE LET version == probe_version(cands[i])
         IN  IF version = None THEN ResolveFrom(cands, i + 1)
             ELSE IF version[1] # "projectdiscovery.io" THEN ResolveFrom(cands, i + 1)
             ELSE Some(i)

\* The index of the first candidate that validates, or None (ToolResolutionError).
resolve_and_validate_tool(cands) == ResolveFrom(cands, 1)

(***************************************************************************)
(* The progress percentages run_scan reports.                              *)
(***************************************************************************)
PctValidate == 5
PctCrawl    == 15
PctExtract  == 45
PctProbe    == 70
PctDb       == 90
PctDone     == 100


(***************************************************************************)
(* JobManager (app/jobs.py).                                               *)
(***************************************************************************)
\* JobState as start() builds it.
NewJobState(t, request) ==
    [job_id |-> JobId(t), status |-> "running", phase |-> "starting",
     progress_pct |-> 0, message |-> "", error |-> None,
     started_at |-> Some("now"), finished_at |-> None,
     site_url |-> Some(request.base_url), scan_id |-> Some(ScanId(t)),
     summary |-> None]

\* JobManager.get: the entry, or None.
Get(job_id) == IF job_id \in DOMAIN jobs THEN Some(jobs[job_id]) ELSE None

\* max(0, min(100, pct))
ClampIdentity(pct) == pct

Clamp(pct) ==
    LET low == IF pct < 100 THEN pct ELSE 100
    IN  IF low > 0 THEN low ELSE 0

NoUpdate == [phase |-> "", pct |-> 0, msg |-> "", ret |-> ""]

IdleReader ==
    [pc |-> "idle", handler |-> "", job |-> None, status |-> "", phase |-> "",
     progress_pct |-> 0, finished_at |-> None, message |-> "", error |-> None,
     site_url |-> None, summary |-> None, resp |-> ""]

\* No write transaction is open; no store call is in progress.
NoTxn == [owner |-> 0, assets |-> {}, scan_meta |-> {}]

NoCall == [op |-> "", site_url |-> None, rows |-> <<>>, ret |-> "", after |-> {}]

\* No function is applied on its own.
NoFn == [name |-> "", arg |-> <<>>, out |-> None, again |-> None]

\* JobManager.__init__ with thread slots `slots`, and the database file as
\* earlier runs of the program left it: one of `stores`.
InitWith(slots, stores) ==
    /\ jobs = <<>>
    /\ lock = 0
    /\ pc = [t \in slots |-> "idle"]
    /\ req = [t \in slots |-> None]
    /\ site = [t \in slots |-> None]
    /\ upd = [t \in slots |-> NoUpdate]
    /\ nrows = [t \in slots |-> 0]
    /\ exc = [t \in slots |-> None]
    /\ result = [t \in slots |-> None]
    /\ reports = [t \in slots |-> <<>>]
    /\ invoked = [t \in slots |-> {}]
    /\ wrote = [t \in slots |-> FALSE]
    /\ unresolved = [t \in slots |-> {}]
    /\ \E store \in stores : assets = store.assets /\ scan_meta = store.scan_meta
    /\ txn = NoTxn
    /\ call = [t \in slots |-> NoCall]
    /\ rd = IdleReader

Goto(t, label) == pc' = [pc EXCEPT ![t] = label]

\* start(): the ids are drawn and the JobState is built.  Slots are taken in
\* call order.
StartBuild(t, requests) ==
    /\ pc[t] = "idle"
    /\ IF t = 1 THEN TRUE ELSE pc[t - 1] # "idle"
    /\ \E request \in requests : req' = [req EXCEPT ![t] = Some(request)]
    /\ Goto(t, "built")
    /\ UNCHANGED <<jobs, lock, upd, exc, reports, scanVars, storeVars, rd, fn>>

\* start(): with self._lock: self._jobs[job_id] = state
StartInsertOverwritesAll(t) ==
    /\ pc[t] = "built"
    /\ lock = 0
    /\ jobs' = (JobId(t) :> NewJobState(t, req[t][1]))
    /\ Goto(t, "inserted")
    /\ UNCHANGED <<lock, req, upd, exc, reports, scanVars, storeVars, rd, fn>>

StartInsert(t) ==
    /\ pc[t] = "built"
    /\ lock = 0
    /\ jobs' = (JobId(t) :> NewJobState(t, req[t][1])) @@ jobs
    /\ Goto(t, "inserted")
    /\ UNCHANGED <<lock, req, upd, exc, reports, scanVars, storeVars, rd, fn>>

\* start(): thread.start(); return state.  The job thread enters _run at
\* `entry`; the caller has its JobState back and does not join the thread.
StartThread(t, entry) ==
    /\ pc[t] = "inserted"
    /\ Goto(t, entry)
    /\ UNCHANGED <<jobs, lock, req, upd, exc, reports, scanVars, storeVars, rd, fn>>

\* start() has returned to its caller.
Returned(t) == pc[t] \notin {"idle", "built", "inserted"}

\* _update, first statement: the lock is taken and state.phase assigned.
UpdateBegin(t, phase, pct, msg, ret) ==
    /\ lock = 0
    /\ lock' = t
    /\ jobs' = [jobs EXCEPT ![JobId(t)].phase = phase]
    /\ upd' = [upd EXCEPT ![t] = [phase |-> phase, pct |-> pct, msg |-> msg, ret |-> ret]]
    /\ Goto(t, "update_pct")
    /\ UNCHANGED <<req, exc, scanVars, storeVars, rd, fn>>

\* _update: state.progress_pct = max(0, min(100, pct))
UpdatePct(t) ==
    /\ pc[t] = "update_pct"
    /\ jobs' = [jobs EXCEPT ![JobId(t)].progress_pct = Clamp(upd[t].pct)]
    /\ Goto(t, "update_msg")
    /\ UNCHANGED <<lock, req, upd, exc, reports, scanVars, storeVars, rd, fn>>

\* _update: state.message = msg; the lock is released and run_scan continues.
UpdateMsg(t) ==
    /\ pc[t] = "update_msg"
    /\ jobs' = [jobs EXCEPT ![JobId(t)].message = upd[t].msg]
    /\ lock' = 0
    /\ Goto(t, upd[t].ret)
    /\ upd' = [upd EXCEPT ![t] = NoUpdate]
    /\ UNCHANGED <<req, exc, reports, scanVars, storeVars, rd, fn>>

\* The exception classes run_scan raises; all derive from Exception.
ExceptionKinds ==
    {"OSError", "ToolResolutionError", "ValueError", "RuntimeError", "re.error",
     "AttributeError", "sqlite3.Error"}

\* _run: except Exception as exc
CatchesRuntimeErrorOnly(kind) == kind = "RuntimeError"

CatchesException(kind) == kind \in ExceptionKinds

\* run_scan raises: control passes to _run's handler, or leaves the thread.
Raise(t, kind, msg) ==
    /\ exc' = [exc EXCEPT ![t] = Some([kind |-> kind, message |-> msg])]
    /\ Goto(t, IF CatchesException(kind) THEN "except" ELSE "crashed")

\* _fail(job_id, str(exc)), one statement per step, under the lock.
FailStatusSwallowed(t) ==
    /\ pc[t] = "except"
    /\ Goto(t, "finished")
    /\ UNCHANGED <<jobs, lock, req, upd, exc, reports, scanVars, storeVars, rd, fn>>

FailStatus(t) ==
    /\ pc[t] = "except"
    /\ lock = 0
    /\ lock' = t
    /\ jobs' = [jobs EXCEPT ![JobId(t)].status = "failed"]
    /\ Goto(t, "fail_phase")
    /\ UNCHANGED <<req, upd, exc, reports, scanVars, storeVars, rd, fn>>

FailPhase(t) ==
    /\ pc[t] = "fail_phase"
    /\ jobs' = [jobs EXCEPT ![JobId(t)].phase = "failed"]
    /\ Goto(t, "fail_error")
    /\ UNCHANGED <<lock, req, upd, exc, reports, scanVars, storeVars, rd, fn>>

FailError(t) ==
    /\ pc[t] = "fail_error"
    /\ jobs' = [jobs EXCEPT ![JobId(t)].error = Some(exc[t][1].message)]
    /\ Goto(t, "fail_message")
    /\ UNCHANGED <<lock, req, upd, exc, reports, scanVars, storeVars, rd, fn>>

FailMessage(t) ==
    /\ pc[t] = "fail_message"
    /\ jobs' = [jobs EXCEPT ![JobId(t)].message = "Scan failed"]
    /\ Goto(t, "fail_finished")
    /\ UNCHANGED <<lock, req, upd, exc, reports, scanVars, storeVars, rd, fn>>

FailFinishedFallsThrough(t) ==
    /\ pc[t] = "fail_finished"
    /\ jobs' = [jobs EXCEPT ![JobId(t)].finished_at = Some("now")]
    /\ lock' = 0
    /\ Goto(t, "return")
    /\ UNCHANGED <<req, upd, exc, reports, scanVars, storeVars, rd, fn>>

FailFinished(t) ==
    /\ pc[t] = "fail_finished"
    /\ jobs' = [jobs EXCEPT ![JobId(t)].finished_at = Some("now")]
    /\ lock' = 0
    /\ Goto(t, "finished")
    /\ UNCHANGED <<req, upd, exc, reports, scanVars, storeVars, rd, fn>>

\* _run after run_scan returned, one statement per step, under the lock.
DoneStatus(t) ==
    /\ pc[t] = "return"
    /\ lock = 0
    /\ lock' = t
    /\ jobs' = [jobs EXCEPT ![JobId(t)].status = "done"]
    /\ Goto(t, "done_phase")
    /\ UNCHANGED <<req, upd, exc, reports, scanVars, storeVars, rd, fn>>

DonePhase(t) ==
    /\ pc[t] = "done_phase"
    /\ jobs' = [jobs EXCEPT ![JobId(t)].phase = "done"]
    /\ Goto(t, "done_pct")
    /\ UNCHANGED <<lock, req, upd, exc, reports, scanVars, storeVars, rd, fn>>

DonePct(t) ==
    /\ pc[t] = "done_pct"
    /\ jobs' = [jobs EXCEPT ![JobId(t)].progress_pct = 100]
    /\ Goto(t, "done_message")
    /\ UNCHANGED <<lock, req, upd, exc, reports, scanVars, storeVars, rd, fn>>

DoneMessage(t) ==
    /\ pc[t] = "done_message"
    /\ jobs' = [jobs EXCEPT ![JobId(t)].message = "Scan completed"]
    /\ Goto(t, "done_finished")
    /\ UNCHANGED <<lock, req, upd, exc, reports, scanVars, storeVars, rd, fn>>

DoneFinished(t) ==
    /\ pc[t] = "done_finished"
    /\ jobs' = [jobs EXCEPT ![JobId(t)].finished_at = Some("now")]
    /\ Goto(t, "done_site")
    /\ UNCHANGED <<lock, req, upd, exc, reports, scanVars, storeVars, rd, fn>>

DoneSite(t) ==
    /\ pc[t] = "done_site"
    /\ jobs' = [jobs EXCEPT ![JobId(t)].site_url = site[t]]
    /\ Goto(t, "done_summary")
    /\ UNCHANGED <<lock, req, upd, exc, reports, scanVars, storeVars, rd, fn>>

DoneSummaryDropped(t) ==
    /\ pc[t] = "done_summary"
    /\ lock' = 0
    /\ Goto(t, "finished")
    /\ UNCHANGED <<jobs, req, upd, exc, reports, scanVars, storeVars, rd, fn>>

DoneSummary(t) ==
    /\ pc[t] = "done_summary"
    /\ jobs' = [jobs EXCEPT ![JobId(t)].summary = result[t]]
    /\ lock' = 0
    /\ Goto(t, "finished")
    /\ UNCHANGED <<req, upd, exc, reports, scanVars, storeVars, rd, fn>>


(***************************************************************************)
(* The asset store (app/db.py).                                            *)
(***************************************************************************)
\* The rows run_scan hands to replace_site_assets: deduped, n of them, each
\* with the instance key of its (site, page, asset, DOM path, attribute,
\* occurrence).
ScanRows(site_url, n) ==
    [i \in 1..n |-> [site_url |-> site_url, instance_key |-> <<site_url, i>>]]

\* DELETE FROM assets WHERE site_url = ? (the same statement on scan_meta).
DeleteAllRows(tbl, site_url) == {}

DeleteSiteRows(tbl, site_url) == { a \in tbl : a.site_url # site_url }

\* executemany(INSERT INTO assets ...): the rows are inserted in order, each
\* tagged with scan_id; instance_key is the table's PRIMARY KEY, so a row
\* whose key the table already holds raises IntegrityError (None here).
RECURSIVE InsertRows(_, _, _, _)
InsertRows(tbl, rows, scan_id, i) ==
    IF i > Len(rows) THEN Some(tbl)
    ELSE IF \E a \in tbl : a.instance_key = rows[i].instance_key THEN None
    ELSE InsertRows(tbl \cup { ("scan_id" :> scan_id) @@ rows[i] }, rows, scan_id, i + 1)

\* replace_site_assets on a table of assets no other connection writes: the
\* DELETE of the site's rows, then the INSERTs.
replace_site_assets(tbl, site_url, scan_id, rows) ==
    InsertRows(DeleteSiteRows(tbl, site_url), rows, scan_id, 1)

\* INSERT INTO scan_meta ... ON CONFLICT(site_url) DO NOTHING
UpsertMetaKeepsExisting(tbl, site_url, scan_id) ==
    IF \E m \in tbl : m.site_url = site_url THEN tbl
    ELSE tbl \cup { [site_url |-> site_url, last_scan_id |-> scan_id, last_status |-> "done"] }

\* INSERT INTO scan_meta ... ON CONFLICT(site_url) DO UPDATE ...
UpsertMeta(tbl, site_url, scan_id) ==
    DeleteSiteRows(tbl, site_url)
        \cup { [site_url |-> site_url, last_scan_id |-> scan_id, last_status |-> "done"] }

EmptyStore == [assets |-> {}, scan_meta |-> {}]

\* The database after an earlier run of the program scanned site_url and
\* stored n rows under a scan id of its own.
PriorStore(site_url, n) ==
    [assets    |-> InsertRows({}, ScanRows(site_url, n), Uuid4(0), 1)[1],
     scan_meta |-> UpsertMeta({}, site_url, Uuid4(0))]

PriorStores ==
    { EmptyStore, PriorStore(normalize_site_origin(MkUrl("http", "a.test", "", "/", "", ""))[1], MaxRows) }

Init == InitWith(Threads, PriorStores) /\ fn = NoFn

\* conn.rollback(): the uncommitted tables are dropped and the write lock freed.
Rollback == txn' = NoTxn

\* replace_site_assets: BEGIN and the DELETE.  The DELETE takes the database's
\* write lock, which SQLite gives to one connection at a time; what the
\* transaction writes is invisible to other connections until COMMIT.
ReplaceBeginKeepsOld(t, site_url, rows, ret) ==
    /\ txn.owner = 0
    /\ txn' = [owner |-> t, assets |-> assets, scan_meta |-> scan_meta]
    /\ call' = [call EXCEPT ![t] = [@ EXCEPT !.op = "replace", !.site_url = site_url,
                                               !.rows = rows, !.ret = ret]]
    /\ Goto(t, "txn_insert")

ReplaceBegin(t, site_url, rows, ret) ==
    /\ txn.owner = 0
    /\ txn' = [owner |-> t, assets |-> DeleteSiteRows(assets, site_url), scan_meta |-> scan_meta]
    /\ call' = [call EXCEPT ![t] = [@ EXCEPT !.op = "replace", !.site_url = site_url,
                                               !.rows = rows, !.ret = ret]]
    /\ Goto(t, "txn_insert")

\* replace_site_assets: the executemany; on IntegrityError the except clause
\* rolls back and re-raises.
ReplaceInsertCommitsOnError(t) ==
    /\ pc[t] = "txn_insert"
    /\ LET inserted == InsertRows(txn.assets, call[t].rows, ScanId(t), 1)
       IN  IF inserted # None
           THEN /\ txn' = [txn EXCEPT !.assets = inserted[1]]
                /\ Goto(t, "txn_commit")
                /\ UNCHANGED <<exc, assets>>
           ELSE /\ assets' = txn.assets
                /\ txn' = NoTxn
                /\ Raise(t, "sqlite3.Error", "UNIQUE constraint failed: assets.instance_key")
    /\ UNCHANGED <<jobs, lock, req, upd, reports, scanVars, scan_meta, call, rd, fn>>

ReplaceInsert(t) ==
    /\ pc[t] = "txn_insert"
    /\ LET inserted == InsertRows(txn.assets, call[t].rows, ScanId(t), 1)
       IN  IF inserted # None
           THEN /\ txn' = [txn EXCEPT !.assets = inserted[1]]
                /\ Goto(t, "txn_commit")
                /\ UNCHANGED exc
           ELSE /\ Rollback
                /\ Raise(t, "sqlite3.Error", "UNIQUE constraint failed: assets.instance_key")
    /\ UNCHANGED <<jobs, lock, req, upd, reports, scanVars, assets, scan_meta, call, rd, fn>>

\* replace_site_assets: the scan_meta upsert and conn.commit(), or a failure
\* of either, which leaves the transaction rolled back.
ReplaceCommitMerges(t) ==
    /\ pc[t] = "txn_commit"
    /\ \/ /\ assets' = assets \cup txn.assets
          /\ scan_meta' = UpsertMeta(txn.scan_meta, call[t].site_url, ScanId(t))
          /\ txn' = NoTxn
          /\ wrote' = [wrote EXCEPT ![t] = TRUE]
          /\ Goto(t, call[t].ret)
          /\ UNCHANGED exc
       \/ /\ Rollback
          /\ Raise(t, "sqlite3.Error", "disk I/O error")
          /\ UNCHANGED <<assets, scan_meta, wrote>>
    /\ UNCHANGED <<jobs, lock, req, upd, reports, site, nrows, result, invoked,
                   unresolved, call, rd, fn>>

ReplaceCommit(t) ==
    /\ pc[t] = "txn_commit"
    /\ \/ /\ assets' = txn.assets
          /\ scan_meta' = UpsertMeta(txn.scan_meta, call[t].site_url, ScanId(t))
          /\ txn' = NoTxn
          /\ wrote' = [wrote EXCEPT ![t] = TRUE]
          /\ Goto(t, call[t].ret)
          /\ UNCHANGED exc
       \/ /\ Rollback
          /\ Raise(t, "sqlite3.Error", "disk I/O error")
          /\ UNCHANGED <<assets, scan_meta, wrote>>
    /\ UNCHANGED <<jobs, lock, req, upd, reports, site, nrows, result, invoked,
                   unresolved, call, rd, fn>>

\* summary_for_site: the totals over the rows the table holds for the site.
summary_for_site(site_url) ==
    [instance_count |-> Cardinality({ a \in assets : a.site_url = site_url })]

(***************************************************************************)
(* Scanner.run_scan (app/scanner.py), one step per call that can block,    *)
(* raise or report.                                                        *)
(***************************************************************************)
\* progress(phase, pct, msg): the lambda of _run calls _update; the call is
\* recorded in reports.
Progress(t, phase, pct, msg, ret) ==
    /\ UpdateBegin(t, phase, pct, msg, ret)
    /\ reports' = [reports EXCEPT ![t] = Append(@, <<phase, pct>>)]

\* run_dir.mkdir(parents=True, exist_ok=True)
MakeRunDir(t) ==
    /\ pc[t] = "mkdir"
    /\ \/ Goto(t, "report_validate") /\ UNCHANGED exc
       \/ Raise(t, "OSError", "cannot create run_dir")
    /\ UNCHANGED <<jobs, lock, req, upd, reports, scanVars, storeVars, rd, fn>>

ReportValidate(t) ==
    /\ pc[t] = "report_validate"
    /\ Progress(t, "validate", PctValidate, "Resolving scanner binaries", "resolve_katana")

\* katana = resolve_and_validate_tool("katana", ...): the candidates are what
\* the machine holds; with none valid the call raises.
ResolveKatana(t) ==
    /\ pc[t] = "resolve_katana"
    /\ \E resolved \in { resolve_and_validate_tool(cands) : cands \in CandidateLists } :
          IF resolved # None
          THEN Goto(t, "resolve_httpx") /\ UNCHANGED <<exc, unresolved>>
          ELSE /\ Raise(t, "ToolResolutionError", "Unable to validate 'katana'")
               /\ unresolved' = [unresolved EXCEPT ![t] = @ \cup {"katana"}]
    /\ UNCHANGED <<jobs, lock, req, upd, reports, site, nrows, result, invoked, wrote,
                   storeVars, rd, fn>>

\* httpx = resolve_and_validate_tool("httpx", ...)
ResolveHttpxDeferred(t) ==
    /\ pc[t] = "resolve_httpx"
    /\ \E resolved \in { resolve_and_validate_tool(cands) : cands \in CandidateLists } :
          unresolved' = [unresolved EXCEPT ![t] = IF resolved # None THEN @ ELSE @ \cup {"httpx"}]
    /\ Goto(t, "normalize")
    /\ UNCHANGED <<jobs, lock, req, upd, exc, reports, site, nrows, result, invoked,
                   wrote, storeVars, rd, fn>>

ResolveHttpx(t) ==
    /\ pc[t] = "resolve_httpx"
    /\ \E resolved \in { resolve_and_validate_tool(cands) : cands \in CandidateLists } :
          IF resolved # None
          THEN Goto(t, "normalize") /\ UNCHANGED <<exc, unresolved>>
          ELSE /\ Raise(t, "ToolResolutionError", "Unable to validate 'httpx'")
               /\ unresolved' = [unresolved EXCEPT ![t] = @ \cup {"httpx"}]
    /\ UNCHANGED <<jobs, lock, req, upd, reports, site, nrows, result, invoked, wrote,
                   storeVars, rd, fn>>

\* base_site_url = normalize_site_origin(request.base_url)
NormalizeBase(t) ==
    /\ pc[t] = "normalize"
    /\ LET origin == normalize_site_origin(req[t][1].base_url)
       IN  IF origin = None
           THEN Raise(t, "ValueError", "Unable to normalize base_url") /\ UNCHANGED site
           ELSE site' = [site EXCEPT ![t] = origin] /\ Goto(t, "robots") /\ UNCHANGED exc
    /\ UNCHANGED <<jobs, lock, req, upd, reports, nrows, result, invoked,
                   wrote, unresolved, storeVars, rd, fn>>

\* robots = RobotsGate(base_site_url, enabled=request.respect_robots): the
\* fetch is skipped, succeeds or fails; none of the three raises.
BuildRobotsGate(t) ==
    /\ pc[t] = "robots"
    /\ \E enabled \in BOOLEAN, fetched \in BOOLEAN : Goto(t, "report_crawl")
    /\ UNCHANGED <<jobs, lock, req, upd, exc, reports, scanVars, storeVars, rd, fn>>

ReportCrawl(t) ==
    /\ pc[t] = "report_crawl"
    /\ Progress(t, "crawl", PctCrawl, "Running katana crawl", "run_katana")

\* self._run_katana(...): run_subprocess raises on a nonzero exit status.
RunKatana(t) ==
    /\ pc[t] = "run_katana"
    /\ invoked' = [invoked EXCEPT ![t] = @ \cup {"katana"}]
    /\ \/ Goto(t, "compile") /\ UNCHANGED exc
       \/ Raise(t, "RuntimeError", "katana failed with exit 1")
    /\ UNCHANGED <<jobs, lock, req, upd, reports, site, nrows, result,
                   wrote, unresolved, storeVars, rd, fn>>

\* re.compile(request.include_regex) / re.compile(request.exclude_regex)
CompilePatterns(t) ==
    /\ pc[t] = "compile"
    /\ \/ Goto(t, "report_extract") /\ UNCHANGED exc
       \/ Raise(t, "re.error", "bad pattern")
    /\ UNCHANGED <<jobs, lock, req, upd, reports, scanVars, storeVars, rd, fn>>

ReportExtract(t) ==
    /\ pc[t] = "report_extract"
    /\ Progress(t, "extract", PctExtract,
                   "Extracting asset instances from crawled pages", "extract")

\* instances = self._extract_instances(...); deduped = dedupe_instances_by_key(...);
\* unique_assets = sorted(...); then the branch on unique_assets.
ExtractAndDedupeAlwaysProbes(t) ==
    /\ pc[t] = "extract"
    /\ \/ \E n \in 0..MaxRows :
             /\ nrows' = [nrows EXCEPT ![t] = n]
             /\ Goto(t, "report_probe")
             /\ UNCHANGED exc
       \/ Raise(t, "OSError", "cannot read katana.jsonl") /\ UNCHANGED nrows
    /\ UNCHANGED <<jobs, lock, req, upd, reports, site, result, invoked,
                   wrote, unresolved, storeVars, rd, fn>>

ExtractAndDedupe(t) ==
    /\ pc[t] = "extract"
    /\ \/ \E n \in 0..MaxRows :
             /\ nrows' = [nrows EXCEPT ![t] = n]
             /\ Goto(t, IF n > 0 THEN "report_probe" ELSE "report_db")
             /\ UNCHANGED exc
       \/ Raise(t, "OSError", "cannot read katana.jsonl") /\ UNCHANGED nrows
    /\ UNCHANGED <<jobs, lock, req, upd, reports, site, result, invoked,
                   wrote, unresolved, storeVars, rd, fn>>

ReportProbeRegresses(t) ==
    /\ pc[t] = "report_probe"
    /\ Progress(t, "probe", PctCrawl, "Probing assets with httpx", "run_httpx")

ReportProbe(t) ==
    /\ pc[t] = "report_probe"
    /\ Progress(t, "probe", PctProbe, "Probing assets with httpx", "run_httpx")

\* self._run_httpx(...); probe_map = load_httpx_map(httpx_jsonl); the merge loop.
RunHttpxIgnoresExit(t) ==
    /\ pc[t] = "run_httpx"
    /\ invoked' = [invoked EXCEPT ![t] = @ \cup {"httpx"}]
    /\ \/ UNCHANGED exc
       \/ exc' = [exc EXCEPT ![t] = Some([kind |-> "RuntimeError", message |-> "httpx failed with exit 1"])]
    /\ Goto(t, "report_db")
    /\ UNCHANGED <<jobs, lock, req, upd, reports, site, nrows, result,
                   wrote, unresolved, storeVars, rd, fn>>

RunHttpx(t) ==
    /\ pc[t] = "run_httpx"
    /\ invoked' = [invoked EXCEPT ![t] = @ \cup {"httpx"}]
    /\ \/ Goto(t, "report_db") /\ UNCHANGED exc
       \/ Raise(t, "RuntimeError", "httpx failed with exit 1")
    /\ UNCHANGED <<jobs, lock, req, upd, reports, site, nrows, result,
                   wrote, unresolved, storeVars, rd, fn>>

ReportDb(t) ==
    /\ pc[t] = "report_db"
    /\ Progress(t, "db", PctDb, "Writing results to SQLite", "replace")

\* with connect(...) as conn: replace_site_assets(conn, site_url, scan_id, rows)
\* begins; a database whose write lock stays taken past busy_timeout raises.
ReplaceSiteAssets(t) ==
    /\ pc[t] = "replace"
    /\ \/ ReplaceBegin(t, site[t][1], ScanRows(site[t][1], nrows[t]), "summary") /\ UNCHANGED exc
       \/ Raise(t, "sqlite3.Error", "database is locked") /\ UNCHANGED <<txn, call>>
    /\ UNCHANGED <<jobs, lock, req, upd, reports, scanVars, assets, scan_meta, rd, fn>>

\* summary = summary_for_site(conn, site_url=base_site_url)
SummaryForSite(t) ==
    /\ pc[t] = "summary"
    /\ \/ /\ result' = [result EXCEPT ![t] = Some(summary_for_site(site[t][1]))]
          /\ Goto(t, "report_done")
          /\ UNCHANGED exc
       \/ /\ Raise(t, "sqlite3.Error", "database is locked")
          /\ UNCHANGED result
    /\ UNCHANGED <<jobs, lock, req, upd, reports, site, nrows, invoked,
                   wrote, unresolved, storeVars, rd, fn>>

ReportDone(t) ==
    /\ pc[t] = "report_done"
    /\ Progress(t, "done", PctDone, "Scan completed", "return")

\* The steps of run_scan.
RunScan(t) ==
    \/ MakeRunDir(t)
    \/ ReportValidate(t)
    \/ ResolveKatana(t)
    \/ ResolveHttpx(t)
    \/ NormalizeBase(t)
    \/ BuildRobotsGate(t)
    \/ ReportCrawl(t)
    \/ RunKatana(t)
    \/ CompilePatterns(t)
    \/ ReportExtract(t)
    \/ ExtractAndDedupe(t)
    \/ ReportProbe(t)
    \/ RunHttpx(t)
    \/ ReportDb(t)
    \/ ReplaceSiteAssets(t)
    \/ ReplaceInsert(t)
    \/ ReplaceCommit(t)
    \/ SummaryForSite(t)
    \/ ReportDone(t)

\* The steps of JobManager around the scanner: _update, _fail, the done block.
JobManagerStep(t) ==
    \/ UpdatePct(t)
    \/ UpdateMsg(t)
    \/ FailStatus(t)
    \/ FailPhase(t)
    \/ FailError(t)
    \/ FailMessage(t)
    \/ FailFinished(t)
    \/ DoneStatus(t)
    \/ DonePhase(t)
    \/ DonePct(t)
    \/ DoneMessage(t)
    \/ DoneFinished(t)
    \/ DoneSite(t)
    \/ DoneSummary(t)

\* The steps of one job thread.
JobThread(t) == RunScan(t) \/ JobManagerStep(t)

\* The steps of one start() call.
Start(t) ==
    \/ StartBuild(t, ScanRequests)
    \/ StartInsert(t)
    \/ StartThread(t, "mkdir")

Next == \E t \in Threads : Start(t) \/ JobThread(t)

Spec == Init /\ [][Next]_vars

\* A started thread keeps running and every blocking call returns: each
\* start() call and each job thread takes its next step when it can.
Fairness == \A t \in Threads : WF_vars(Start(t)) /\ WF_vars(JobThread(t))

SpecFair == Spec /\ Fairness

(***************************************************************************)
(* JobManager with a stub scanner: run_scan calls the progress callback    *)
(* any number of times with any phase and any integer percentage, then     *)
(* returns a result or raises.                                             *)
(***************************************************************************)
PctInputs == {0 - 50, 0 - 1, 0, 1, 100, 101, 250}

StubPhases == {"validate", "done"}

StubProgress(t) ==
    /\ pc[t] = "stub"
    /\ \E phase \in StubPhases, pct \in PctInputs : UpdateBegin(t, phase, pct, "working", "stub")
    /\ UNCHANGED reports

StubReturn(t) ==
    /\ pc[t] = "stub"
    /\ result' = [result EXCEPT ![t] = Some([instance_count |-> 0])]
    /\ Goto(t, "return")
    /\ UNCHANGED <<jobs, lock, req, upd, exc, reports, site, nrows, invoked, wrote,
                   unresolved, storeVars, rd, fn>>

StubRaise(t) ==
    /\ pc[t] = "stub"
    /\ Raise(t, "RuntimeError", "stub failed")
    /\ UNCHANGED <<jobs, lock, req, upd, reports, scanVars, storeVars, rd, fn>>

StubStart(t) ==
    \/ StartBuild(t, StubRequests)
    \/ StartInsert(t)
    \/ StartThread(t, "stub")

StubScan(t) == StubProgress(t) \/ StubReturn(t) \/ StubRaise(t)

InitStub == InitWith(StubThreads, {EmptyStore}) /\ fn = NoFn

NextStub == \E t \in StubThreads : StubStart(t) \/ StubScan(t) \/ JobManagerStep(t)

SpecStub == InitStub /\ [][NextStub]_vars

(***************************************************************************)
(* The status handlers (app/main.py): get_scan and get_summary take the    *)
(* JobState from jobs.get(job_id) and then read its fields one by one,     *)
(* without the lock.                                                       *)
(***************************************************************************)
JobIdInputs == { Uuid4(k) : k \in 1..(2 * MaxJobs + 1) }

Handlers == {"get_scan", "get_summary"}

\* job = jobs.get(job_id); if not job: raise HTTPException(404)
HandlerGet ==
    /\ rd.pc = "idle"
    /\ lock = 0
    /\ \E h \in Handlers, id \in JobIdInputs :
          rd' = IF Get(id) = None
                THEN [IdleReader EXCEPT !.handler = h, !.resp = "404"]
                ELSE [IdleReader EXCEPT !.handler = h, !.job = Some(id), !.pc = "read_status"]
    /\ UNCHANGED <<jobs, lock, pc, req, upd, exc, reports, scanVars, storeVars, fn>>

ReadField(field, next) ==
    /\ rd' = [rd EXCEPT ![field] = jobs[rd.job[1]][field], !.pc = next]
    /\ UNCHANGED <<jobs, lock, pc, req, upd, exc, reports, scanVars, storeVars, fn>>

\* job.status: the first field either handler reads.  get_summary answers 409
\* at once when it is not "done".
ReadStatus ==
    /\ rd.pc = "read_status"
    /\ LET status == jobs[rd.job[1]].status
       IN  rd' = [rd EXCEPT !.status = status,
                            !.pc = IF rd.handler = "get_scan" THEN "read_phase"
                                   ELSE IF status # "done" THEN "idle"
                                   ELSE "read_summary",
                            !.resp = IF rd.handler = "get_summary" /\ status # "done"
                                     THEN "409" ELSE ""]
    /\ UNCHANGED <<jobs, lock, pc, req, upd, exc, reports, scanVars, storeVars, fn>>

\* get_summary: `not job.summary` answers 409, else SummaryResponse(**job.summary)
ReadSummary ==
    /\ rd.pc = "read_summary"
    /\ LET summary == jobs[rd.job[1]].summary
       IN  rd' = [rd EXCEPT !.summary = summary, !.pc = "idle",
                            !.resp = IF summary = None THEN "409" ELSE "200"]
    /\ UNCHANGED <<jobs, lock, pc, req, upd, exc, reports, scanVars, storeVars, fn>>

\* get_scan: the keyword arguments of ScanStatusResponse, in order.
ReadPhase    == rd.pc = "read_phase"    /\ ReadField("phase", "read_progress")
ReadProgress == rd.pc = "read_progress" /\ ReadField("progress_pct", "read_finished")
ReadFinished == rd.pc = "read_finished" /\ ReadField("finished_at", "read_message")
ReadMessage  == rd.pc = "read_message"  /\ ReadField("message", "read_error")
ReadError    == rd.pc = "read_error"    /\ ReadField("error", "read_site")

ReadSite ==
    /\ rd.pc = "read_site"
    /\ rd' = [rd EXCEPT !.site_url = jobs[rd.job[1]].site_url, !.pc = "idle", !.resp = "200"]
    /\ UNCHANGED <<jobs, lock, pc, req, upd, exc, reports, scanVars, storeVars, fn>>

Handler ==
    \/ HandlerGet
    \/ ReadStatus
    \/ ReadSummary
    \/ ReadPhase
    \/ ReadProgress
    \/ ReadFinished
    \/ ReadMessage
    \/ ReadError
    \/ ReadSite

NextReader == Next \/ Handler

SpecReader == Init /\ [][NextReader]_vars


(***************************************************************************)
(* The store's writers on their own: each slot is the persistence step of  *)
(* one scan (run_scan from "db" on, with whatever rows the scan found) or   *)
(* one DELETE /api/sites request, each on a connection of its own.         *)
(***************************************************************************)
StoreSlots == 1..MaxCalls

\* The sites the database knows: the origins of the base URLs.
Sites == { normalize_site_origin(u)[1] : u \in { b \in BaseUrls : normalize_site_origin(b) # None } }

\* Instance keys are opaque strings to the store.
StoreKeys == {"k1", "k2"}

RowLists(site_url) ==
    UNION { [1..n -> [site_url : {site_url}, instance_key : StoreKeys]] : n \in 0..MaxRows }

\* Slots are taken in order.
SlotFree(t) == pc[t] = "idle" /\ (IF t = 1 THEN TRUE ELSE pc[t - 1] # "idle")

\* A scan reaches replace_site_assets with its rows; `after` notes the slots
\* whose transactions had committed by then.
ScanArrives(t) ==
    /\ SlotFree(t)
    /\ \E site_url \in Sites : \E rows \in RowLists(site_url) :
          call' = [call EXCEPT ![t] = [op |-> "replace", site_url |-> site_url, rows |-> rows,
                                       ret |-> "returned",
                                       after |-> { u \in StoreSlots : wrote[u] }]]
    /\ Goto(t, "replace")
    /\ UNCHANGED <<jobs, lock, req, upd, exc, reports, scanVars, assets, scan_meta, txn, rd, fn>>

\* replace_site_assets begins once the write lock is free, or gives up on it.
StoreReplace(t) ==
    /\ pc[t] = "replace"
    /\ IF txn.owner = 0
       THEN ReplaceBegin(t, call[t].site_url, call[t].rows, call[t].ret) /\ UNCHANGED exc
       ELSE Raise(t, "sqlite3.Error", "database is locked") /\ UNCHANGED <<txn, call>>
    /\ UNCHANGED <<jobs, lock, req, upd, reports, scanVars, assets, scan_meta, rd, fn>>

\* DELETE /api/sites?site_url=... calls delete_site_data: BEGIN, the two COUNT
\* queries and the two DELETEs.  The read lock the queries take keeps other
\* connections from committing until this transaction ends, and the first
\* DELETE takes the write lock or fails.
DeleteBegin(t) ==
    /\ SlotFree(t)
    /\ \E site_url \in Sites :
          /\ call' = [call EXCEPT ![t] = [op |-> "delete", site_url |-> site_url, rows |-> <<>>,
                                          ret |-> "respond", after |-> {}]]
          /\ IF txn.owner = 0
             THEN /\ txn' = [owner |-> t,
                             assets |-> DeleteSiteRows(assets, site_url),
                             scan_meta |-> DeleteSiteRows(scan_meta, site_url)]
                  /\ result' = [result EXCEPT ![t] =
                         Some([site_url |-> site_url,
                               removed_assets |-> Cardinality({ a \in assets : a.site_url = site_url }),
                               removed_meta |-> Cardinality({ m \in scan_meta : m.site_url = site_url }) # 0])]
                  /\ Goto(t, "delete_commit")
                  /\ UNCHANGED exc
             ELSE /\ Raise(t, "sqlite3.Error", "database is locked")
                  /\ UNCHANGED <<txn, result>>
    /\ UNCHANGED <<jobs, lock, req, upd, reports, site, nrows, invoked, wrote, unresolved,
                   assets, scan_meta, rd, fn>>

\* delete_site_data: conn.commit() and the returned dict, or a failed commit.
DeleteCommit(t) ==
    /\ pc[t] = "delete_commit"
    /\ \/ /\ assets' = txn.assets
          /\ scan_meta' = txn.scan_meta
          /\ txn' = NoTxn
          /\ wrote' = [wrote EXCEPT ![t] = TRUE]
          /\ Goto(t, call[t].ret)
          /\ UNCHANGED <<exc, result>>
       \/ /\ Rollback
          /\ Raise(t, "sqlite3.Error", "disk I/O error")
          /\ result' = [result EXCEPT ![t] = None]
          /\ UNCHANGED <<assets, scan_meta, wrote>>
    /\ UNCHANGED <<jobs, lock, req, upd, reports, site, nrows, invoked, unresolved, call, rd, fn>>

\* delete_site (app/main.py): 404 when nothing was removed, else the result.
DeleteRespondIgnoresMeta(t) ==
    /\ pc[t] = "respond"
    /\ Goto(t, IF result[t][1].removed_assets = 0 THEN "resp_404" ELSE "resp_200")
    /\ UNCHANGED <<jobs, lock, req, upd, exc, reports, scanVars, storeVars, rd, fn>>

DeleteRespond(t) ==
    /\ pc[t] = "respond"
    /\ Goto(t, IF result[t][1].removed_assets = 0 /\ ~result[t][1].removed_meta
               THEN "resp_404" ELSE "resp_200")
    /\ UNCHANGED <<jobs, lock, req, upd, exc, reports, scanVars, storeVars, rd, fn>>

StoreScan(t) == ScanArrives(t) \/ StoreReplace(t) \/ ReplaceInsert(t) \/ ReplaceCommit(t)

StoreDelete(t) == DeleteBegin(t) \/ DeleteCommit(t) \/ DeleteRespond(t)

InitStore == InitWith(StoreSlots, {EmptyStore}) /\ fn = NoFn

NextStore == \E t \in StoreSlots : StoreScan(t) \/ StoreDelete(t)

SpecStore == InitStore /\ [][NextStore]_vars

(***************************************************************************)
(* The db phase of run_scan whole, beside the store's other writers: a     *)
(* scan slot runs replace_site_assets and then summary_for_site on its     *)
(* connection, a delete slot runs delete_site_data on another.             *)
(***************************************************************************)
\* A scan reaches the db phase with its site and its deduplicated rows.
ScanReachesDb(t) ==
    /\ SlotFree(t)
    /\ \E site_url \in Sites : \E rows \in RowLists(site_url) :
          /\ call' = [call EXCEPT ![t] = [op |-> "replace", site_url |-> site_url, rows |-> rows,
                                          ret |-> "summary",
                                          after |-> { u \in StoreSlots : wrote[u] }]]
          /\ site' = [site EXCEPT ![t] = Some(site_url)]
          /\ nrows' = [nrows EXCEPT ![t] = Len(rows)]
    /\ Goto(t, "replace")
    /\ UNCHANGED <<jobs, lock, req, upd, exc, reports, result, invoked, wrote, unresolved,
                   assets, scan_meta, txn, rd, fn>>

\* with connect(...) as conn: replace_site_assets(...); summary = summary_for_site(...)
DbPhase(t) ==
    ScanReachesDb(t) \/ StoreReplace(t) \/ ReplaceInsert(t) \/ ReplaceCommit(t) \/ SummaryForSite(t)

NextDb == \E t \in StoreSlots : DbPhase(t) \/ StoreDelete(t)

SpecDb == InitStore /\ [][NextDb]_vars

(***************************************************************************)
(* Functions applied on their own: the argument is drawn in the initial     *)
(* state, one step applies the function, a second applies it to the result. *)
(***************************************************************************)
\* Instance rows as dedupe_instances_by_key sees them: the key and one more
\* column, so that rows of one key can differ.
InstanceRows == [instance_key : {"k1", "k2"}, asset_url : {"u1", "u2"}]

InstanceLists(max) == UNION { [1..n -> InstanceRows] : n \in 0..max }

\* dedupe_instances_by_key, the loop from row i on.
RECURSIVE DedupeFromKeepsLast(_, _, _, _)
DedupeFromKeepsLast(rows, i, seen, deduped) ==
    IF i > Len(rows) THEN deduped
    ELSE LET key == rows[i].instance_key
         IN  IF key \in seen
             THEN DedupeFromKeepsLast(rows, i + 1, seen,
                      [k \in 1..Len(deduped) |->
                          IF deduped[k].instance_key = key THEN rows[i] ELSE deduped[k]])
             ELSE DedupeFromKeepsLast(rows, i + 1, seen \cup {key}, Append(deduped, rows[i]))

RECURSIVE DedupeFromForgets(_, _, _, _)
DedupeFromForgets(rows, i, seen, deduped) ==
    IF i > Len(rows) THEN deduped
    ELSE LET key == rows[i].instance_key
         IN  IF key \in seen
             THEN DedupeFromForgets(rows, i + 1, seen \ {key}, deduped)
             ELSE DedupeFromForgets(rows, i + 1, seen \cup {key}, Append(deduped, rows[i]))

RECURSIVE DedupeFrom(_, _, _, _)
DedupeFrom(rows, i, seen, deduped) ==
    IF i > Len(rows) THEN deduped
    ELSE LET key == rows[i].instance_key
         IN  IF key \in seen
             THEN DedupeFrom(rows, i + 1, seen, deduped)
             ELSE DedupeFrom(rows, i + 1, seen \cup {key}, Append(deduped, rows[i]))

dedupe_instances_by_key(rows) == DedupeFrom(rows, 1, {}, <<>>)

(***************************************************************************)
(* extract_asset_instances (app/extractor.py).  A page is the list of the   *)
(* elements of its body, in document order; an attribute value is the list   *)
(* of the comma-separated entries it holds (one entry unless it is a         *)
(* srcset), each a URL reference, blank when the entry is empty.             *)
(***************************************************************************)
\* urlunsplit of the parts normalize_identity_url keeps.
UrlString(n) ==
    n.scheme \o "://" \o n.host
        \o (IF n.port # 0 THEN ":" \o ToString(n.port) ELSE "")
        \o n.path
        \o (IF n.query # "" THEN "?" \o n.query ELSE "")

\* The page_url argument as the string it is: a normalised URL.
PageUrlString(a) == UrlString(normalize_identity_url(a.page_url)[1])

\* urljoin(page_url, candidate) for a candidate that is absolute or has an
\* absolute path.
urljoin(base, ref) ==
    IF ref.scheme # "" THEN ref
    ELSE MkUrl(base.scheme, base.host, base.port, ref.path, ref.query, ref.fragment)

\* TAG_ATTRS, for the tags of the pages drawn.
TAG_ATTRS(tag) ==
    CASE tag = "script" -> <<"src">>
      [] tag = "img"    -> <<"src", "srcset">>
      [] tag = "a"      -> <<"href">>
      [] tag = "link"   -> <<"href">>
      [] OTHER          -> <<>>

BlankRef == MkUrl("", "", "", "", "", "")

IsCandidate(ref) == ref # BlankRef

\* parse_attribute_urls: the non-empty entries of the value, in order.
parse_attribute_urls(attr_name, raw_value) == SelectSeq(raw_value, IsCandidate)

\* The element's parent: an index into the list of elements, 0 for <body>;
\* the elements of a page drawn as a flat list are children of <body>.
ParentOf(nodes, i) == IF "parent" \in DOMAIN nodes[i] THEN nodes[i].parent ELSE 0

\* build_dom_path of the i-th element: the segments of its ancestors from the
\* BeautifulSoup object down, then its own; each segment is the tag and one
\* plus the number of earlier siblings of that tag.
RECURSIVE build_dom_path_unranked(_, _)
build_dom_path_unranked(nodes, i) ==
    IF i = 0 THEN "/[document][1]/html[1]/body[1]"
    ELSE build_dom_path_unranked(nodes, ParentOf(nodes, i)) \o "/" \o nodes[i].tag \o "[1]"

RECURSIVE build_dom_path(_, _)
build_dom_path(nodes, i) ==
    IF i = 0 THEN "/[document][1]/html[1]/body[1]"
    ELSE build_dom_path(nodes, ParentOf(nodes, i)) \o "/" \o nodes[i].tag \o "["
            \o ToString(1 + Cardinality({ j \in 1..(i - 1) :
                                            /\ ParentOf(nodes, j) = ParentOf(nodes, i)
                                            /\ nodes[j].tag = nodes[i].tag }))
            \o "]"

\* EXTENSIONS: the categories in the order of the dict, each with its suffixes.
EXTENSIONS ==
    << <<"css",    {".css"}>>,
       <<"js",     {".js", ".mjs"}>>,
       <<"images", {".jpg", ".jpeg", ".png", ".gif", ".webp", ".svg", ".ico", ".bmp", ".avif"}>>,
       <<"fonts",  {".woff", ".woff2", ".ttf", ".otf", ".eot"}>>,
       <<"video",  {".mp4", ".webm", ".m3u8", ".mpd", ".mov", ".avi", ".mp3", ".wav"}>>,
       <<"docs",   {".pdf", ".doc", ".docx", ".xls", ".xlsx", ".ppt", ".pptx", ".txt", ".csv"}>> >>

\* lowered.endswith(suffixes), for the paths the model draws: the path ends
\* with its last dotted part and with no other suffix of the table.
EndsWith(lowered, suffixes) ==
    (CASE lowered = "/x.png"             -> ".png"
       [] lowered \in {"/y.js", "/a.js"} -> ".js"
       [] lowered = "/b.css"             -> ".css"
       [] lowered = "/f.woff2"           -> ".woff2"
       [] lowered = "/v.mp4"             -> ".mp4"
       [] lowered = "/d.pdf"             -> ".pdf"
       [] OTHER                          -> "") \in suffixes

\* The tag is looked at before the extension of the path.
classify_by_tag_first(path, tag, attr, node) ==
    LET lowered == Lower(path)
        matches == { i \in 1..Len(EXTENSIONS) : EndsWith(lowered, EXTENSIONS[i][2]) }
    IN  IF tag = "script" /\ attr = "src" THEN "js"
        ELSE IF tag = "img" THEN "images"
        ELSE IF tag \in {"video", "audio", "track"} THEN "video"
        ELSE IF matches # {} THEN EXTENSIONS[CHOOSE i \in matches : \A j \in matches : i <= j][1]
        ELSE "docs"

\* classify_resource_type(url, tag, attr, node), with the path of the URL
\* for the URL: the first category of EXTENSIONS with a suffix the lowercased
\* path ends with, else the tag and, for a link, its rel and as attributes,
\* else "docs" (RESOURCE_TYPES holds it).
classify_resource_type(path, tag, attr, node) ==
    LET lowered    == Lower(path)
        matches    == { i \in 1..Len(EXTENSIONS) : EndsWith(lowered, EXTENSIONS[i][2]) }
        rel_values == IF "rel" \in DOMAIN node.attrs
                      THEN { Lower(node.attrs["rel"][i]) : i \in 1..Len(node.attrs["rel"]) }
                      ELSE {}
        as_value   == IF "as" \in DOMAIN node.attrs THEN Lower(node.attrs["as"]) ELSE ""
    IN  IF matches # {} THEN EXTENSIONS[CHOOSE i \in matches : \A j \in matches : i <= j][1]
        ELSE IF tag = "script" /\ attr = "src" THEN "js"
        ELSE IF tag = "img" THEN "images"
        ELSE IF tag = "video" THEN "video"
        ELSE IF tag = "audio" THEN "video"
        ELSE IF tag = "track" THEN "video"
        ELSE IF tag = "link" /\ attr = "href" /\ "stylesheet" \in rel_values THEN "css"
        ELSE IF tag = "link" /\ attr = "href"
                 /\ {"preload", "prefetch", "modulepreload"} \cap rel_values # {}
                 /\ as_value \in {"script", "style", "font", "image"}
             THEN (CASE as_value = "script" -> "js"
                     [] as_value = "style"  -> "css"
                     [] as_value = "font"   -> "fonts"
                     [] as_value = "image"  -> "images")
        ELSE IF tag = "link" /\ attr = "href" /\ "icon" \in rel_values THEN "images"
        ELSE "docs"

\* make_instance_key: sha256 of the fields joined by "|"; the digest is
\* taken to be as distinct as the joined string is.
make_instance_key_by_url(site_url, page_url, asset_url, dom_path, asset_attr, attr_occurrence) ==
    site_url \o "|" \o page_url \o "|" \o asset_url \o "|" \o asset_attr

make_instance_key(site_url, page_url, asset_url, dom_path, asset_attr, attr_occurrence) ==
    site_url \o "|" \o page_url \o "|" \o asset_url \o "|" \o dom_path \o "|"
        \o asset_attr \o "|" \o ToString(attr_occurrence)

\* The candidates of element i from its k-th extracted attribute on, in the
\* order of the two inner loops.
RECURSIVE NodeRefs(_, _, _)
NodeRefs(nodes, i, k) ==
    LET attrs == TAG_ATTRS(nodes[i].tag)
    IN  IF k > Len(attrs) THEN <<>>
        ELSE LET attr_name  == attrs[k]
                 candidates == IF attr_name \in DOMAIN nodes[i].attrs
                               THEN parse_attribute_urls(attr_name, nodes[i].attrs[attr_name])
                               ELSE <<>>
             IN  [c \in 1..Len(candidates) |->
                     [tag |-> nodes[i].tag, dom_path |-> build_dom_path(nodes, i),
                      attr_name |-> attr_name, candidate |-> candidates[c], node |-> nodes[i]]]
                 \o NodeRefs(nodes, i, k + 1)

\* for node in soup.find_all(True): the candidates of the page in loop order.
RECURSIVE PageRefs(_, _)
PageRefs(nodes, i) ==
    IF i > Len(nodes) THEN <<>> ELSE NodeRefs(nodes, i, 1) \o PageRefs(nodes, i + 1)

\* counter[occurrence_key] += 1 on a defaultdict(int)
Increment(counter, key) ==
    IF key \in DOMAIN counter THEN [counter EXCEPT ![key] = @ + 1] ELSE (key :> 1) @@ counter

\* The body of the innermost loop, from candidate i on.
RECURSIVE ExtractFromCountsEarly(_, _, _, _, _)
ExtractFromCountsEarly(refs, i, counter, instances, a) ==
    IF i > Len(refs) THEN instances
    ELSE LET ref        == refs[i]
             normalized == normalize_identity_url(urljoin(a.page_url, ref.candidate))
         IN  IF normalized = None
             THEN ExtractFromCountsEarly(refs, i + 1, counter, instances, a)
             ELSE LET asset_url == UrlString(normalized[1])
                      resource_type == classify_resource_type(normalized[1].path, ref.tag, ref.attr_name, ref.node)
                      counted == Increment(counter, <<ref.attr_name, asset_url>>)
                      attr_occurrence == counted[<<ref.attr_name, asset_url>>]
                  IN  IF \/ a.include_pattern # None /\ asset_url \notin a.include_pattern[1]
                         \/ a.exclude_pattern # None /\ asset_url \in a.exclude_pattern[1]
                         \/ a.selected_types # None /\ resource_type \notin a.selected_types[1]
                      THEN ExtractFromCountsEarly(refs, i + 1, counted, instances, a)
                      ELSE ExtractFromCountsEarly(refs, i + 1, counted,
                               Append(instances,
                                   [site_url |-> a.site_url, page_url |-> PageUrlString(a),
                                    asset_url |-> asset_url, dom_path |-> ref.dom_path,
                                    asset_attr |-> ref.attr_name,
                                    attr_occurrence |-> attr_occurrence,
                                    instance_key |-> make_instance_key(a.site_url,
                                        PageUrlString(a), asset_url, ref.dom_path,
                                        ref.attr_name, attr_occurrence),
                                    resource_type |-> resource_type]), a)

RECURSIVE ExtractFrom(_, _, _, _, _)
ExtractFrom(refs, i, counter, instances, a) ==
    IF i > Len(refs) THEN instances
    ELSE LET ref        == refs[i]
             normalized == normalize_identity_url(urljoin(a.page_url, ref.candidate))
         IN  IF normalized = None
             THEN ExtractFrom(refs, i + 1, counter, instances, a)
             ELSE LET asset_url == UrlString(normalized[1])
                      resource_type == classify_resource_type(normalized[1].path, ref.tag, ref.attr_name, ref.node)
                      counted == Increment(counter, <<ref.attr_name, asset_url>>)
                      attr_occurrence == counted[<<ref.attr_name, asset_url>>]
                  IN  IF \/ a.include_pattern # None /\ asset_url \notin a.include_pattern[1]
                         \/ a.exclude_pattern # None /\ asset_url \in a.exclude_pattern[1]
                         \/ a.selected_types # None /\ resource_type \notin a.selected_types[1]
                      THEN ExtractFrom(refs, i + 1, counter, instances, a)
                      ELSE ExtractFrom(refs, i + 1, counted,
                               Append(instances,
                                   [site_url |-> a.site_url, page_url |-> PageUrlString(a),
                                    asset_url |-> asset_url, dom_path |-> ref.dom_path,
                                    asset_attr |-> ref.attr_name,
                                    attr_occurrence |-> attr_occurrence,
                                    instance_key |-> make_instance_key(a.site_url,
                                        PageUrlString(a), asset_url, ref.dom_path,
                                        ref.attr_name, attr_occurrence),
                                    resource_type |-> resource_type]), a)

\* a: the keyword arguments, with html as the elements a.nodes; a compiled
\* pattern is the set of URLs its search() matches.
extract_asset_instances(a) ==
    ExtractFrom(PageRefs(a.nodes, 1), 1, [key \in {} |-> 0], <<>>, a)

\* The references the drawn pages use: one asset written three ways, an asset
\* without a known extension, and a reference that is not http(s).
RefPng      == MkUrl("http", "a.test", "", "/x.png", "", "")
RefPngUpper == MkUrl("http", "A.test", "", "/x.png", "", "top")
RefPngRel   == MkUrl("", "", "", "/x.png", "", "")
RefPlain    == MkUrl("http", "a.test", "", "/r", "", "")
RefMailto   == MkUrl("mailto", "", "", "x@a.test", "", "")

NodeKinds ==
    { [tag |-> "img",    attrs |-> [src |-> <<RefPngRel>>,
                                    srcset |-> <<RefPng, BlankRef, RefPngUpper>>]],
      [tag |-> "img",    attrs |-> [src |-> <<RefPlain>>]],
      [tag |-> "script", attrs |-> [src |-> <<RefPlain>>]],
      [tag |-> "script", attrs |-> [src |-> <<RefPng>>]],
      [tag |-> "a",      attrs |-> [href |-> <<RefMailto>>]],
      [tag |-> "div",    attrs |-> [src |-> <<RefPlain>>]],
      [tag |-> "script", attrs |-> [src |-> <<MkUrl("", "", "", "/a.js", "", "")>>]],
      [tag |-> "link",   attrs |-> [href |-> <<MkUrl("", "", "", "/b.css", "", "")>>, rel |-> <<"stylesheet">>]] }

Pages(max) == UNION { [1..n -> NodeKinds] : n \in 0..max }

\* selected_types, include_pattern and exclude_pattern as the requests give them.
ExtractFilters ==
    { [selected_types |-> None, include_pattern |-> None, exclude_pattern |-> None],
      [selected_types |-> Some({"images"}), include_pattern |-> None, exclude_pattern |-> None],
      [selected_types |-> None, include_pattern |-> None,
       exclude_pattern |-> Some({"http://a.test/x.png"})] }

ExtractArgs(max) ==
    { [site_url |-> "http://a.test", page_url |-> MkUrl("http", "a.test", "", "/page", "", ""),
       nodes |-> nodes, selected_types |-> f.selected_types,
       include_pattern |-> f.include_pattern, exclude_pattern |-> f.exclude_pattern] :
         nodes \in Pages(max), f \in ExtractFilters }

\* Parsed trees below <body>: the elements listed parents first and siblings
\* in document order, each with its tag and its parent.
DomTrees(max) ==
    UNION { { tree \in [1..n -> [tag : {"div", "img"}, parent : 0..(n - 1)]] :
                \A i \in 1..n : tree[i].parent < i } : n \in 0..max }

\* URLs handed to normalize_identity_url: http, https and another scheme; a
\* host in either casing, no host, a host urlsplit cannot parse; no port, the
\* two default ports, a port that is no number; with and without a fragment.
UrlInputs ==
    { MkUrl(scheme, host, port, "/x", "", fragment) :
        scheme \in {"http", "https", "mailto"}, host \in {"a.test", "A.test", "", "[::1"},
        port \in {"", "80", "443", "blank"}, fragment \in {"", "top"} }

(***************************************************************************)
(* RobotsGate and Scanner._extract_instances (app/scanner.py).  A line of    *)
(* katana.jsonl is blank, text that is no JSON, JSON that is no object, or   *)
(* an entry with its endpoint, its url and its response body.                *)
(***************************************************************************)
\* What GET {origin}/robots.txt can give RobotFileParser.read(): a policy, a
\* policy whose evaluation raises, an exception (no connection, bad
\* encoding), or an HTTP error status, which read() takes without raising.
RobotsFetches == {"policy", "policy_eval_raises", "raises", "http_403", "http_404", "http_503"}

\* The pages the site's policy disallows for every user agent.
DisallowedPages == {"http://a.test/p1"}

\* RobotsGate.__init__: enabled false does not fetch; else parser.read() is called once.
RobotsGateAlwaysFetches(enabled, fetch) ==
    [enabled |-> TRUE, parser |-> IF fetch = "raises" THEN None ELSE Some(fetch), fetches |-> 1]

RobotsGate(enabled, fetch) ==
    IF ~enabled THEN [enabled |-> FALSE, parser |-> None, fetches |-> 0]
    ELSE [enabled |-> TRUE, parser |-> IF fetch = "raises" THEN None ELSE Some(fetch),
          fetches |-> 1]

\* RobotFileParser.can_fetch("*", url): false on disallow_all (401, 403),
\* true on allow_all (other 4xx), false while nothing was parsed (5xx), else
\* the policy's answer.
can_fetch(parser, url) ==
    CASE parser = "http_403" -> FALSE
      [] parser = "http_404" -> TRUE
      [] parser = "http_503" -> FALSE
      [] OTHER               -> url \notin DisallowedPages

\* RobotsGate.is_allowed
is_allowed(robots, url) ==
    IF ~robots.enabled THEN TRUE
    ELSE IF robots.parser = None THEN TRUE
    ELSE IF robots.parser[1] = "policy_eval_raises" THEN TRUE
    ELSE can_fetch(robots.parser[1], url)

\* extract_page_url: request.endpoint, else url, else None.
extract_page_url(entry) == IF entry.endpoint # None THEN entry.endpoint ELSE entry.url

\* A line that is empty once stripped, or one json.loads rejects.
Unparsable(line) == line.kind \in {"blank", "garbage"}

\* What _extract_instances has at its start; consulted, denied and extracted
\* note the pages given to robots.is_allowed, refused by it, and given to
\* extract_asset_instances.
NoExtraction ==
    [rows |-> <<>>, seen_pages |-> {}, page_instances_seen |-> <<>>, raised |-> None,
     consulted |-> {}, denied |-> {}, extracted |-> {}]

\* _extract_instances, the loop from line i on.
RECURSIVE ExtractInstancesFromNoCap(_, _, _)
ExtractInstancesFromNoCap(k, i, st) ==
    IF i > Len(k.lines) THEN st
    ELSE LET line == k.lines[i]
             raw  == extract_page_url(line)
             page == IF raw = None THEN None ELSE normalize_identity_url(raw[1])
         IN  IF Unparsable(line) THEN ExtractInstancesFromNoCap(k, i + 1, st)
             ELSE IF line.kind = "json_scalar" THEN [st EXCEPT !.raised = Some("AttributeError")]
             ELSE IF page = None THEN ExtractInstancesFromNoCap(k, i + 1, st)
             ELSE IF page[1].host # k.site_host THEN ExtractInstancesFromNoCap(k, i + 1, st)
             ELSE LET page_url == UrlString(page[1])
                      seen     == [st EXCEPT !.seen_pages = @ \cup {page_url}]
                      asked    == [seen EXCEPT !.consulted = @ \cup {page_url}]
                      known    == IF page_url \in DOMAIN st.page_instances_seen
                                  THEN st.page_instances_seen[page_url] ELSE {}
                      instances == extract_asset_instances(
                                      [site_url |-> k.site_url, page_url |-> raw[1],
                                       nodes |-> line.nodes, selected_types |-> None,
                                       include_pattern |-> None, exclude_pattern |-> None])
                      fresh    == DedupeFrom(instances, 1, known, <<>>)
                  IN  IF ~is_allowed(k.robots, page_url)
                      THEN ExtractInstancesFromNoCap(k, i + 1, [asked EXCEPT !.denied = @ \cup {page_url}])
                      ELSE IF ~line.html THEN ExtractInstancesFromNoCap(k, i + 1, asked)
                      ELSE ExtractInstancesFromNoCap(k, i + 1,
                               [asked EXCEPT !.extracted = @ \cup {page_url},
                                             !.page_instances_seen =
                                                 (page_url :> (known \cup { fresh[j].instance_key :
                                                                              j \in 1..Len(fresh) })) @@ @,
                                             !.rows = @ \o fresh])

\* The loop without the check of the page's host against site_host.
RECURSIVE ExtractInstancesFromAnyHost(_, _, _)
ExtractInstancesFromAnyHost(k, i, st) ==
    IF i > Len(k.lines) THEN st
    ELSE LET line == k.lines[i]
             raw  == extract_page_url(line)
             page == IF raw = None THEN None ELSE normalize_identity_url(raw[1])
         IN  IF Unparsable(line) THEN ExtractInstancesFromAnyHost(k, i + 1, st)
             ELSE IF line.kind = "json_scalar" THEN [st EXCEPT !.raised = Some("AttributeError")]
             ELSE IF page = None THEN ExtractInstancesFromAnyHost(k, i + 1, st)
             ELSE LET page_url == UrlString(page[1])
                      seen     == [st EXCEPT !.seen_pages = @ \cup {page_url}]
                      asked    == [seen EXCEPT !.consulted = @ \cup {page_url}]
                      known    == IF page_url \in DOMAIN st.page_instances_seen
                                  THEN st.page_instances_seen[page_url] ELSE {}
                      instances == extract_asset_instances(
                                      [site_url |-> k.site_url, page_url |-> raw[1],
                                       nodes |-> line.nodes, selected_types |-> None,
                                       include_pattern |-> None, exclude_pattern |-> None])
                      fresh    == DedupeFrom(instances, 1, known, <<>>)
                  IN  IF page_url \notin st.seen_pages /\ Cardinality(seen.seen_pages) > k.max_pages
                      THEN seen
                      ELSE IF ~is_allowed(k.robots, page_url)
                      THEN ExtractInstancesFromAnyHost(k, i + 1, [asked EXCEPT !.denied = @ \cup {page_url}])
                      ELSE IF ~line.html THEN ExtractInstancesFromAnyHost(k, i + 1, asked)
                      ELSE ExtractInstancesFromAnyHost(k, i + 1,
                               [asked EXCEPT !.extracted = @ \cup {page_url},
                                             !.page_instances_seen =
                                                 (page_url :> (known \cup { fresh[j].instance_key :
                                                                              j \in 1..Len(fresh) })) @@ @,
                                             !.rows = @ \o fresh])

\* The loop without the test of the key against page_instances_seen[page_url].
RECURSIVE ExtractInstancesFromNoPageSet(_, _, _)
ExtractInstancesFromNoPageSet(k, i, st) ==
    IF i > Len(k.lines) THEN st
    ELSE LET line == k.lines[i]
             raw  == extract_page_url(line)
             page == IF raw = None THEN None ELSE normalize_identity_url(raw[1])
         IN  IF Unparsable(line) THEN ExtractInstancesFromNoPageSet(k, i + 1, st)
             ELSE IF line.kind = "json_scalar" THEN [st EXCEPT !.raised = Some("AttributeError")]
             ELSE IF page = None THEN ExtractInstancesFromNoPageSet(k, i + 1, st)
             ELSE IF page[1].host # k.site_host THEN ExtractInstancesFromNoPageSet(k, i + 1, st)
             ELSE LET page_url == UrlString(page[1])
                      seen     == [st EXCEPT !.seen_pages = @ \cup {page_url}]
                      asked    == [seen EXCEPT !.consulted = @ \cup {page_url}]
                      known    == IF page_url \in DOMAIN st.page_instances_seen
                                  THEN st.page_instances_seen[page_url] ELSE {}
                      instances == extract_asset_instances(
                                      [site_url |-> k.site_url, page_url |-> raw[1],
                                       nodes |-> line.nodes, selected_types |-> None,
                                       include_pattern |-> None, exclude_pattern |-> None])
                      fresh    == instances
                  IN  IF page_url \notin st.seen_pages /\ Cardinality(seen.seen_pages) > k.max_pages
                      THEN seen
                      ELSE IF ~is_allowed(k.robots, page_url)
                      THEN ExtractInstancesFromNoPageSet(k, i + 1, [asked EXCEPT !.denied = @ \cup {page_url}])
                      ELSE IF ~line.html THEN ExtractInstancesFromNoPageSet(k, i + 1, asked)
                      ELSE ExtractInstancesFromNoPageSet(k, i + 1,
                               [asked EXCEPT !.extracted = @ \cup {page_url},
                                             !.page_instances_seen =
                                                 (page_url :> (known \cup { fresh[j].instance_key :
                                                                              j \in 1..Len(fresh) })) @@ @,
                                             !.rows = @ \o fresh])

\* A page over the cap is skipped (continue) and the loop goes on.
RECURSIVE ExtractInstancesFromSkipsOverCap(_, _, _)
ExtractInstancesFromSkipsOverCap(k, i, st) ==
    IF i > Len(k.lines) THEN st
    ELSE LET line == k.lines[i]
             raw  == extract_page_url(line)
             page == IF raw = None THEN None ELSE normalize_identity_url(raw[1])
         IN  IF Unparsable(line) THEN ExtractInstancesFromSkipsOverCap(k, i + 1, st)
             ELSE IF line.kind = "json_scalar" THEN [st EXCEPT !.raised = Some("AttributeError")]
             ELSE IF page = None THEN ExtractInstancesFromSkipsOverCap(k, i + 1, st)
             ELSE IF page[1].host # k.site_host THEN ExtractInstancesFromSkipsOverCap(k, i + 1, st)
             ELSE LET page_url == UrlString(page[1])
                      seen     == [st EXCEPT !.seen_pages = @ \cup {page_url}]
                      asked    == [seen EXCEPT !.consulted = @ \cup {page_url}]
                      known    == IF page_url \in DOMAIN st.page_instances_seen
                                  THEN st.page_instances_seen[page_url] ELSE {}
                      instances == extract_asset_instances(
                                      [site_url |-> k.site_url, page_url |-> raw[1],
                                       nodes |-> line.nodes, selected_types |-> None,
                                       include_pattern |-> None, exclude_pattern |-> None])
                      fresh    == DedupeFrom(instances, 1, known, <<>>)
                  IN  IF page_url \notin st.seen_pages /\ Cardinality(seen.seen_pages) > k.max_pages
                      THEN ExtractInstancesFromSkipsOverCap(k, i + 1, seen)
                      ELSE IF ~is_allowed(k.robots, page_url)
                      THEN ExtractInstancesFromSkipsOverCap(k, i + 1, [asked EXCEPT !.denied = @ \cup {page_url}])
                      ELSE IF ~line.html THEN ExtractInstancesFromSkipsOverCap(k, i + 1, asked)
                      ELSE ExtractInstancesFromSkipsOverCap(k, i + 1,
                               [asked EXCEPT !.extracted = @ \cup {page_url},
                                             !.page_instances_seen =
                                                 (page_url :> (known \cup { fresh[j].instance_key :
                                                                              j \in 1..Len(fresh) })) @@ @,
                                             !.rows = @ \o fresh])

RECURSIVE ExtractInstancesFrom(_, _, _)
ExtractInstancesFrom(k, i, st) ==
    IF i > Len(k.lines) THEN st
    ELSE LET line == k.lines[i]
             raw  == extract_page_url(line)
             page == IF raw = None THEN None ELSE normalize_identity_url(raw[1])
         IN  IF Unparsable(line) THEN ExtractInstancesFrom(k, i + 1, st)
             ELSE IF line.kind = "json_scalar" THEN [st EXCEPT !.raised = Some("AttributeError")]
             ELSE IF page = None THEN ExtractInstancesFrom(k, i + 1, st)
             ELSE IF page[1].host # k.site_host THEN ExtractInstancesFrom(k, i + 1, st)
             ELSE LET page_url == UrlString(page[1])
                      seen     == [st EXCEPT !.seen_pages = @ \cup {page_url}]
                      asked    == [seen EXCEPT !.consulted = @ \cup {page_url}]
                      known    == IF page_url \in DOMAIN st.page_instances_seen
                                  THEN st.page_instances_seen[page_url] ELSE {}
                      instances == extract_asset_instances(
                                      [site_url |-> k.site_url, page_url |-> raw[1],
                                       nodes |-> line.nodes, selected_types |-> None,
                                       include_pattern |-> None, exclude_pattern |-> None])
                      fresh    == DedupeFrom(instances, 1, known, <<>>)
                  IN  IF page_url \notin st.seen_pages /\ Cardinality(seen.seen_pages) > k.max_pages
                      THEN seen
                      ELSE IF ~is_allowed(k.robots, page_url)
                      THEN ExtractInstancesFrom(k, i + 1, [asked EXCEPT !.denied = @ \cup {page_url}])
                      ELSE IF ~line.html THEN ExtractInstancesFrom(k, i + 1, asked)
                      ELSE ExtractInstancesFrom(k, i + 1,
                               [asked EXCEPT !.extracted = @ \cup {page_url},
                                             !.page_instances_seen =
                                                 (page_url :> (known \cup { fresh[j].instance_key :
                                                                              j \in 1..Len(fresh) })) @@ @,
                                             !.rows = @ \o fresh])

\* The file is read up to its first unparsable line.
extract_instances_to_first_bad_line(k) ==
    LET bad == { i \in 1..Len(k.lines) : Unparsable(k.lines[i]) }
    IN  IF bad = {} THEN ExtractInstancesFrom(k, 1, NoExtraction)
        ELSE ExtractInstancesFrom(
                 [k EXCEPT !.lines = SubSeq(@, 1, (CHOOSE i \in bad : \A j \in bad : i <= j) - 1)],
                 1, NoExtraction)

\* k: the keyword arguments, with the file as its lines k.lines.
_extract_instances(k) == ExtractInstancesFrom(k, 1, NoExtraction)

\* The lines of the files drawn: two pages of the site, one of them a second
\* time under another spelling, a page of another host, a page whose body is
\* no HTML, and the three kinds of line that are no entry.
KatanaLines ==
    LET script == [tag |-> "script", attrs |-> [src |-> <<MkUrl("", "", "", "/a.js", "", "")>>]]
        link   == [tag |-> "link", attrs |-> [href |-> <<MkUrl("", "", "", "/b.css", "", "")>>,
                                              rel |-> <<"stylesheet">>]]
        img    == [tag |-> "img", attrs |-> [src |-> <<RefPlain>>]]
        Line(kind, host, path, fragment, html, nodes) ==
            [kind |-> kind, html |-> html, nodes |-> nodes,
             endpoint |-> IF kind = "entry" /\ fragment = ""
                          THEN Some(MkUrl("http", host, "", path, "", "")) ELSE None,
             url |-> IF kind = "entry" /\ fragment # ""
                     THEN Some(MkUrl("http", host, "", path, "", fragment)) ELSE None]
    IN  { Line("blank", "", "", "", FALSE, <<>>),
          Line("garbage", "", "", "", FALSE, <<>>),
          Line("json_scalar", "", "", "", FALSE, <<>>),
          Line("entry", "a.test", "/p1", "", TRUE, <<script, script, link>>),
          Line("entry", "A.test", "/p1", "top", TRUE, <<script, img>>),
          Line("entry", "a.test", "/p2", "", TRUE, <<img>>),
          Line("entry", "a.test", "/p3", "", FALSE, <<>>),
          Line("entry", "b.test", "/p1", "", TRUE, <<img>>) }

\* The request of a scan started from http://A.test/start?q=1#top, the file
\* its crawl left and what the site answers for robots.txt; site_url and
\* site_host are what run_scan derives from the base URL.  The files are
\* those of up to max lines of any kind and those of max + 1 pages of the
\* site, which go over every max_pages drawn.
ExtractInstancesArgs(max) ==
    { [base_url |-> MkUrl("http", "A.test", "", "/start", "q=1", "top"),
       site_url |-> OriginString(normalize_site_origin(
                        MkUrl("http", "A.test", "", "/start", "q=1", "top"))[1]),
       site_host |-> normalize_site_origin(
                        MkUrl("http", "A.test", "", "/start", "q=1", "top"))[1].host,
       lines |-> lines, respect_robots |-> enabled, fetch |-> fetch,
       max_pages |-> max_pages] :
         lines \in UNION { [1..n -> KatanaLines] : n \in 0..max }
                     \cup [1..(max + 1) -> { line \in KatanaLines :
                                               /\ line.kind = "entry"
                                               /\ Lower(extract_page_url(line)[1].host) = "a.test" }],
         enabled \in BOOLEAN,
         fetch \in RobotsFetches, max_pages \in 1..max }

(***************************************************************************)
(* run_scan from the extract phase to the db phase, as a function of the    *)
(* files the two tools wrote.  A line of httpx.jsonl is text that is no     *)
(* JSON or an object with input, url and the three probed values.           *)
(***************************************************************************)
\* load_httpx_map: a later line replaces what an earlier one gave a URL.
RECURSIVE load_httpx_map(_)
load_httpx_map(lines) ==
    IF lines = <<>> THEN <<>>
    ELSE LET row        == lines[Len(lines)]
             earlier    == load_httpx_map(SubSeq(lines, 1, Len(lines) - 1))
             values     == { v \in {row.input, row.url} :
                               IF v = None THEN FALSE ELSE normalize_identity_url(v[1]) # None }
             candidates == { UrlString(normalize_identity_url(v[1])[1]) : v \in values }
             metadata   == [status_code |-> row.status_code, content_type |-> row.content_type,
                            content_length |-> row.content_length]
         IN  IF ~row.json THEN earlier ELSE [c \in candidates |-> metadata] @@ earlier

\* for row in deduped: probe = probe_map.get(row["asset_url"], {}); ...
MergeProbeDropsUnprobed(deduped, probe_map) ==
    LET probed == SelectSeq(deduped, LAMBDA row : row.asset_url \in DOMAIN probe_map)
    IN  [i \in 1..Len(probed) |-> probe_map[probed[i].asset_url] @@ probed[i]]

MergeProbe(deduped, probe_map) ==
    [i \in 1..Len(deduped) |->
        (IF deduped[i].asset_url \in DOMAIN probe_map THEN probe_map[deduped[i].asset_url]
         ELSE [status_code |-> None, content_type |-> None, content_length |-> None])
            @@ deduped[i]]

\* run_scan, lines 76 to 126: the instances, the deduplicated rows, the probe
\* map (loaded only when there is an asset to probe), the merged rows and the
\* rows replace_site_assets leaves in an empty table; or the exception of
\* _extract_instances.
ScanData(k, httpx_lines, scan_id) ==
    LET robots     == RobotsGate(k.respect_robots, k.fetch)
        extraction == _extract_instances(("robots" :> robots) @@ k)
        deduped    == dedupe_instances_by_key(extraction.rows)
        unique_assets == { deduped[i].asset_url : i \in 1..Len(deduped) }
        probe_map  == IF unique_assets # {} THEN load_httpx_map(httpx_lines) ELSE <<>>
        rows       == MergeProbe(deduped, probe_map)
    IN  IF extraction.raised # None
        THEN [raised |-> extraction.raised, instances |-> <<>>, deduped |-> <<>>,
              probed |-> FALSE, probe_map |-> <<>>, rows |-> <<>>, assets |-> {}]
        ELSE [raised |-> None, instances |-> extraction.rows, deduped |-> deduped,
              probed |-> unique_assets # {}, probe_map |-> probe_map, rows |-> rows,
              assets |-> InsertRows(DeleteSiteRows({}, k.site_url), rows, scan_id, 1)[1]]

\* The lines httpx writes: one for the stylesheet, one for it under another
\* spelling and with other values, one for the script, one that is no JSON.
HttpxLines ==
    LET Line(json, input, url, status_code, content_type, content_length) ==
            [json |-> json, input |-> input, url |-> url, status_code |-> status_code,
             content_type |-> content_type, content_length |-> content_length]
    IN  { Line(FALSE, None, None, None, None, None),
          Line(TRUE, Some(MkUrl("http", "a.test", "", "/b.css", "", "")), None,
               Some(200), Some("text/css"), None),
          Line(TRUE, None, Some(MkUrl("http", "A.test", "", "/b.css", "", "top")),
               Some(500), None, Some(0)),
          Line(TRUE, Some(MkUrl("http", "a.test", "", "/a.js", "", "")),
               Some(MkUrl("http", "a.test", "", "/a.js", "", "")),
               Some(404), Some("text/html"), None) }

\* Base URLs of scan requests: two schemes, three spellings of two hosts,
\* with and without a port, and three tails of path, query and fragment.
OriginInputs ==
    { MkUrl(scheme, host, port, tail[1], tail[2], tail[3]) :
        scheme \in {"http", "https"}, host \in {"a.test", "A.test", "b.test"},
        port \in {"", "8080"},
        tail \in { <<"", "", "">>, <<"/", "", "">>, <<"/p", "q=1", "top">> } }

\* The arguments drawn for the function `name`.
FnInputs(name) ==
    CASE name = "dedupe_instances_by_key" ->
           { [NoFn EXCEPT !.name = name, !.arg = rows] : rows \in InstanceLists(MaxInstances) }
      [] name = "extract_asset_instances" ->
           { [NoFn EXCEPT !.name = name, !.arg = a] : a \in ExtractArgs(MaxNodes) }
      [] name = "build_dom_path" ->
           { [NoFn EXCEPT !.name = name, !.arg = tree] : tree \in DomTrees(MaxNodes) }
      [] name = "normalize_identity_url" ->
           { [NoFn EXCEPT !.name = name, !.arg = <<u1, u2>>] : u1 \in UrlInputs, u2 \in UrlInputs }
      [] name = "_extract_instances" ->
           { [NoFn EXCEPT !.name = name, !.arg = k] : k \in ExtractInstancesArgs(MaxLines) }
      [] name = "normalize_site_origin" ->
           { [NoFn EXCEPT !.name = name, !.arg = [first |-> b1, second |-> b2, nrows |-> n]] :
               b1 \in OriginInputs, b2 \in OriginInputs, n \in 0..MaxRows }
      [] name = "classify_resource_type" ->
           { [NoFn EXCEPT !.name = name,
                          !.arg = [path |-> path, tag |-> tag, attr |-> attr,
                                   node |-> [tag |-> tag,
                                             attrs |-> ("rel" :> rel) @@ ("as" :> as_value)]]] :
               path \in {"/x.png", "/X.PNG", "/y.js", "/b.css", "/f.woff2", "/v.mp4", "/d.pdf", "/r"},
               tag \in {"script", "img", "video", "audio", "track", "link", "a"},
               attr \in {"src", "href"},
               rel \in {<<>>, <<"stylesheet">>, <<"Stylesheet">>, <<"preload">>, <<"icon">>,
                        <<"preload", "icon">>},
               as_value \in {"", "script", "style", "font", "image", "fetch"} }
      [] name = "run_scan" ->
           { [NoFn EXCEPT !.name = name, !.arg = [k |-> k, httpx_lines |-> httpx_lines]] :
               k \in { e \in ExtractInstancesArgs(MaxLines) :
                          /\ ~e.respect_robots /\ e.fetch = "policy"
                          /\ Len(e.lines) <= MaxLines
                          /\ \A i \in 1..Len(e.lines) : e.lines[i].kind = "entry" },
               httpx_lines \in UNION { [1..n -> HttpxLines] : n \in 0..MaxLines } }

\* A step that applies the function `name` changes nothing of the program.
FnStep(name) ==
    /\ fn.name = name
    /\ UNCHANGED <<jobs, lock, pc, req, upd, exc, reports, scanVars, storeVars, rd>>

ApplyDedupe ==
    /\ FnStep("dedupe_instances_by_key")
    /\ fn.out = None
    /\ fn' = [fn EXCEPT !.out = Some(dedupe_instances_by_key(fn.arg))]

ApplyDedupeAgain ==
    /\ FnStep("dedupe_instances_by_key")
    /\ fn.out # None /\ fn.again = None
    /\ fn' = [fn EXCEPT !.again = Some(dedupe_instances_by_key(fn.out[1]))]

ApplyExtract ==
    /\ FnStep("extract_asset_instances")
    /\ fn.out = None
    /\ fn' = [fn EXCEPT !.out = Some(extract_asset_instances(fn.arg))]

\* build_dom_path(node) for every element of the tree.
ApplyDomPath ==
    /\ FnStep("build_dom_path")
    /\ fn.out = None
    /\ fn' = [fn EXCEPT !.out = Some([i \in 1..Len(fn.arg) |-> build_dom_path(fn.arg, i)])]

\* normalize_identity_url(u1) and normalize_identity_url(u2)
ApplyNormalize ==
    /\ FnStep("normalize_identity_url")
    /\ fn.out = None
    /\ fn' = [fn EXCEPT !.out = Some(<<normalize_identity_url(fn.arg[1]),
                                        normalize_identity_url(fn.arg[2])>>)]

\* base_site_url = normalize_site_origin(request.base_url) in two scans, the
\* first with MaxRows rows under scan id Uuid4(2), the second with nrows rows
\* under Uuid4(4); each ends in replace_site_assets(site_url=base_site_url).
ApplyOrigin ==
    /\ FnStep("normalize_site_origin")
    /\ fn.out = None
    /\ LET first  == normalize_site_origin(fn.arg.first)[1]
           second == normalize_site_origin(fn.arg.second)[1]
           stored == replace_site_assets({}, first, Uuid4(2), ScanRows(first, MaxRows))[1]
       IN  fn' = [fn EXCEPT !.out =
                     Some([origins |-> <<first, second>>, stored |-> stored,
                           replaced |-> replace_site_assets(stored, second, Uuid4(4),
                                                            ScanRows(second, fn.arg.nrows))[1]])]

\* classify_resource_type(url=..., tag=node.name, attr=attr_name, node=node)
ApplyClassify ==
    /\ FnStep("classify_resource_type")
    /\ fn.out = None
    /\ fn' = [fn EXCEPT !.out = Some(classify_resource_type(fn.arg.path, fn.arg.tag,
                                                             fn.arg.attr, fn.arg.node))]

\* robots = RobotsGate(base_site_url, enabled=request.respect_robots), then
\* instances = self._extract_instances(..., robots=robots, ...)
ApplyExtractInstances ==
    /\ FnStep("_extract_instances")
    /\ fn.out = None
    /\ LET robots == RobotsGate(fn.arg.respect_robots, fn.arg.fetch)
       IN  fn' = [fn EXCEPT !.out = Some(("robots" :> robots)
                                           @@ _extract_instances(("robots" :> robots) @@ fn.arg))]

\* run_scan from the extract phase to the db phase, under scan id Uuid4(2).
ApplyScanData ==
    /\ FnStep("run_scan")
    /\ fn.out = None
    /\ fn' = [fn EXCEPT !.out = Some(ScanData(fn.arg.k, fn.arg.httpx_lines, Uuid4(2)))]

InitPure ==
    /\ InitWith({}, {EmptyStore})
    /\ \E name \in {"dedupe_instances_by_key", "extract_asset_instances", "build_dom_path",
                     "normalize_identity_url", "_extract_instances", "run_scan",
                     "classify_resource_type", "normalize_site_origin"} :
           fn \in FnInputs(name)

NextPure == ApplyDedupe \/ ApplyDedupeAgain \/ ApplyExtract \/ ApplyDomPath
                \/ ApplyNormalize \/ ApplyExtractInstances \/ ApplyScanData \/ ApplyClassify
                \/ ApplyOrigin

SpecPure == InitPure /\ [][NextPure]_vars

(***************************************************************************)
(* Properties.                                                             *)
(***************************************************************************)
\* The registry entry of slot t exists.
InRegistry(t) == JobId(t) \in DOMAIN jobs

\* The entry of slot t exists and no locked update of it is under way.
Settled(t) == InRegistry(t) /\ lock # t

TerminalStatuses == {"done", "failed"}

FailPath == {"except", "fail_phase", "fail_error", "fail_message", "fail_finished", "finished"}

\* C1: a job's status changes only from running to done or from running to
\* failed, and once a job is done or failed (its locked update complete) its
\* status, phase, progress, error and summary never change again, whatever
\* the scanner and the other jobs do.
C1_Step(t) ==
    InRegistry(t) =>
        /\ JobId(t) \in DOMAIN jobs'
        /\ jobs'[JobId(t)].status # jobs[JobId(t)].status =>
              /\ jobs[JobId(t)].status = "running"
              /\ jobs'[JobId(t)].status \in TerminalStatuses
        /\ (Settled(t) /\ jobs[JobId(t)].status \in TerminalStatuses) =>
              \A f \in {"status", "phase", "progress_pct", "error", "summary"} :
                  jobs'[JobId(t)][f] = jobs[JobId(t)][f]

C1_TerminalIsFinal == [][\A t \in StubThreads : C1_Step(t)]_vars

\* C1 witness: one job is failed for good while another is being marked done.
C1_Witness ==
    \E t \in StubThreads, u \in StubThreads :
        /\ pc[t] = "finished" /\ jobs[JobId(t)].status = "failed"
        /\ pc[u] = "done_summary"

\* C2: when run_scan raises, in whatever phase, control stays in _run's
\* handler (the exception does not leave the thread), the summary stays null,
\* and the job ends failed with the exception's message as its error.
C2_RaisedScanFails ==
    \A t \in Threads :
        exc[t] # None =>
            /\ pc[t] \in FailPath
            /\ jobs[JobId(t)].summary = None
            /\ pc[t] = "finished" =>
                  /\ jobs[JobId(t)].status = "failed"
                  /\ jobs[JobId(t)].error = Some(exc[t][1].message)

\* C2 witness: the summary query raised after the rows were committed, and
\* the job ended failed.
C2_Witness ==
    \E t \in Threads :
        /\ pc[t] = "finished"
        /\ exc[t] # None /\ exc[t][1].kind = "sqlite3.Error"
        /\ wrote[t]
        /\ jobs[JobId(t)].status = "failed"

\* C3: in every state of the registry with no locked update of the job under
\* way, a done job has progress 100, phase done, a summary and finished_at.
C3_DoneIsComplete ==
    \A t \in Threads :
        (Settled(t) /\ jobs[JobId(t)].status = "done") =>
            /\ jobs[JobId(t)].progress_pct = 100
            /\ jobs[JobId(t)].phase = "done"
            /\ jobs[JobId(t)].summary # None
            /\ jobs[JobId(t)].finished_at # None

\* C3 witness: a done job whose summary counts the rows its scan wrote.
C3_Witness ==
    \E t \in Threads :
        /\ Settled(t) /\ jobs[JobId(t)].status = "done"
        /\ nrows[t] > 0
        /\ jobs[JobId(t)].summary = Some([instance_count |-> nrows[t]])

\* C4 (the claim as stated): a status handler never answers from a partly
\* applied update: having read status done it finds the summary (get_summary)
\* and finished_at (get_scan) set, having read status failed it finds the error
\* set.
C4_ReadsNeverTorn ==
    /\ (rd.handler = "get_summary" /\ rd.pc = "idle" /\ rd.status = "done") =>
          rd.summary # None
    /\ (rd.handler = "get_scan" /\ rd.resp = "200" /\ rd.status = "failed") =>
          rd.error # None
    /\ (rd.handler = "get_scan" /\ rd.resp = "200" /\ rd.status = "done") =>
          rd.finished_at # None

\* C5: the phases a scan reports are, in order, a prefix of validate, crawl,
\* extract, probe, db, done, with probe left out exactly when the scan has no
\* rows; the reported percentages strictly increase; and no step lowers a
\* job's progress_pct.
PhaseOrder == <<"validate", "crawl", "extract", "probe", "db", "done">>

PhaseIndex(phase) == CHOOSE i \in 1..Len(PhaseOrder) : PhaseOrder[i] = phase

C5_Reports(t) ==
    LET r == reports[t]
    IN  /\ \A i \in 1..Len(r) :
              /\ \E k \in 1..Len(PhaseOrder) : PhaseOrder[k] = r[i][1]
              /\ r[i][1] = "probe" => nrows[t] > 0
        /\ Len(r) > 0 => r[1][1] = "validate"
        /\ \A i \in 1..(Len(r) - 1) :
              /\ r[i][2] < r[i + 1][2]
              /\ \/ PhaseIndex(r[i + 1][1]) = PhaseIndex(r[i][1]) + 1
                 \/ r[i][1] = "extract" /\ r[i + 1][1] = "db" /\ nrows[t] = 0

C5_Monotone(t) ==
    InRegistry(t) =>
        /\ JobId(t) \in DOMAIN jobs'
        /\ jobs'[JobId(t)].progress_pct >= jobs[JobId(t)].progress_pct

C5_PhasesInOrder ==
    /\ [](\A t \in Threads : C5_Reports(t))
    /\ [][\A t \in Threads : C5_Monotone(t)]_vars

\* C5 witness: a finished scan that reported all six phases.
C5_Witness ==
    \E t \in Threads : pc[t] = "finished" /\ Len(reports[t]) = 6

\* C6: whatever integer the progress callback is given, below 0 and above 100
\* included, the stored progress_pct is within 0..100.
C6_ProgressClamped ==
    \A id \in DOMAIN jobs : jobs[id].progress_pct \in 0..100

\* C6 witness: _update has just stored the percentage of a call made with a
\* negative value, while another job holds one stored from a call above 100.
C6_Witness ==
    \E t \in StubThreads, u \in StubThreads :
        /\ pc[t] = "update_msg" /\ upd[t].pct < 0
        /\ jobs[JobId(t)].progress_pct = 0
        /\ InRegistry(u) /\ jobs[JobId(u)].progress_pct = 100 /\ pc[u] = "stub"

\* The ids given to get(): every job id and scan id a start() call can draw,
\* and one no call draws.
StubIdInputs == { Uuid4(k) : k \in 1..(2 * MaxStubJobs + 1) }

\* The job ids of the start() calls that have inserted their entry.
Allocated == { JobId(t) : t \in { u \in StubThreads : pc[u] \notin {"idle", "built"} } }

\* C7: get(job_id) returns an entry exactly for the job ids start() has
\* allocated, the entry of that id; and no step removes an entry or puts
\* another JobState in its place.
C7_Kept(id) ==
    /\ id \in DOMAIN jobs'
    /\ jobs'[id].job_id = jobs[id].job_id
    /\ jobs'[id].scan_id = jobs[id].scan_id
    /\ jobs'[id].started_at = jobs[id].started_at

C7_GetFindsAllocated ==
    /\ [](\A id \in StubIdInputs :
            /\ (Get(id) # None) <=> (id \in Allocated)
            /\ Get(id) # None => Get(id)[1].job_id = id)
    /\ [][\A id \in DOMAIN jobs : C7_Kept(id)]_vars

\* C7 witness: two jobs have ended, one done and one failed, both are still
\* found, and an id that is only a scan id is not.
C7_Witness ==
    /\ \A t \in StubThreads : pc[t] = "finished" /\ Get(JobId(t)) # None
    /\ \E t \in StubThreads : jobs[JobId(t)].status = "done"
    /\ \E t \in StubThreads : jobs[JobId(t)].status = "failed"
    /\ Get(ScanId(1)) = None

\* C8: each start() adds exactly one entry, with status running, whose job id
\* and scan id no other entry has, and leaves the other entries alone, also
\* when start() calls overlap; no entry is ever queued.
C8_Insert(t) ==
    (pc[t] = "built" /\ pc'[t] = "inserted") =>
        /\ JobId(t) \notin DOMAIN jobs
        /\ DOMAIN jobs' = DOMAIN jobs \cup {JobId(t)}
        /\ jobs'[JobId(t)].status = "running"
        /\ \A id \in DOMAIN jobs : jobs'[id] = jobs[id]

C8_StartAddsOneEntry ==
    /\ [](/\ Cardinality(DOMAIN jobs)
               = Cardinality({ t \in StubThreads : pc[t] \notin {"idle", "built"} })
          /\ \A id \in DOMAIN jobs : jobs[id].status \in {"running", "done", "failed"}
          /\ \A i \in DOMAIN jobs, j \in DOMAIN jobs :
                i # j => /\ jobs[i].job_id # jobs[j].job_id
                         /\ jobs[i].scan_id # jobs[j].scan_id)
    /\ [][\A t \in StubThreads : C8_Insert(t)]_vars

\* C8 witness: two start() calls overlap: the first has built its JobState
\* and not yet inserted it, the second has inserted its own, started its
\* thread and returned, and its entry is the only one, running, with nothing
\* reported yet.
C8_Witness ==
    /\ pc[1] = "built" /\ pc[2] = "stub"
    /\ Returned(2)
    /\ DOMAIN jobs = {JobId(2)}
    /\ jobs[JobId(2)].status = "running" /\ jobs[JobId(2)].phase = "starting"

\* C9: with every started thread scheduled and every blocking call returning,
\* every job start() created ends done or failed.
C9_EveryJobEnds ==
    \A t \in Threads :
        InRegistry(t) ~> (InRegistry(t) /\ jobs[JobId(t)].status \in TerminalStatuses)

\* C9 witness: a scan that found no assets ran to the end and its job is done.
C9_Witness ==
    \E t \in Threads :
        /\ pc[t] = "finished" /\ jobs[JobId(t)].status = "done"
        /\ nrows[t] = 0 /\ invoked[t] = {"katana"}

\* C10: when the resolver finds no valid binary for one of the tools, the scan
\* has reported only validate, neither tool is run, the store holds nothing of
\* this scan, and the job ends failed.
C10_UnresolvedToolStopsScan ==
    \A t \in Threads :
        unresolved[t] # {} =>
            /\ reports[t] = << <<"validate", PctValidate>> >>
            /\ invoked[t] = {}
            /\ ~wrote[t]
            /\ \A a \in assets : a.scan_id # ScanId(t)
            /\ \A m \in scan_meta : m.last_scan_id # ScanId(t)
            /\ pc[t] \in FailPath
            /\ pc[t] = "finished" => jobs[JobId(t)].status = "failed"

\* C10 witness: katana resolved, httpx did not, and the job ended failed.
C10_Witness ==
    \E t \in Threads :
        /\ unresolved[t] = {"httpx"}
        /\ pc[t] = "finished"
        /\ jobs[JobId(t)].status = "failed"

\* A tool run through run_subprocess exited with a nonzero status in scan t.
ToolFailed(t) == exc[t] # None /\ exc[t][1].kind = "RuntimeError"

\* The phase the scan of slot t reported last.
LastPhase(t) == reports[t][Len(reports[t])][1]

C11_Aborted(t) ==
    ToolFailed(t) =>
        /\ pc[t] \in FailPath
        /\ LastPhase(t) = (IF "httpx" \in invoked[t] THEN "probe" ELSE "crawl")
        /\ call[t] = NoCall /\ txn.owner # t
        /\ ~wrote[t]
        /\ \A a \in assets : a.scan_id # ScanId(t)
        /\ \A m \in scan_meta : m.last_scan_id # ScanId(t)

\* The tables change only in the commit of a scan that raised nothing.
C11_StoreStep ==
    (assets' # assets \/ scan_meta' # scan_meta) =>
        \E u \in Threads : pc[u] = "txn_commit" /\ ~ToolFailed(u) /\ wrote'[u]

\* C11: when katana or httpx exits with a nonzero status the scan raises in
\* the phase of that tool, reports no later phase and never opens its
\* transaction; the asset rows and scan-meta records change only in the commit
\* of a scan none of whose tools failed, so the failed scan leaves them as it
\* found them.
C11_ToolFailureKeepsStore ==
    /\ [](\A t \in Threads : C11_Aborted(t))
    /\ [][C11_StoreStep]_vars

\* C11 witness: the database held rows of an earlier scan of the site, httpx
\* exited nonzero, the job ended failed and the earlier rows and scan-meta
\* record are all still there.
C11_Witness ==
    \E t \in Threads :
        /\ ToolFailed(t) /\ invoked[t] = {"katana", "httpx"}
        /\ pc[t] = "finished" /\ jobs[JobId(t)].status = "failed"
        /\ assets # {}
        /\ [assets |-> assets, scan_meta |-> scan_meta] = PriorStore(site[t][1], MaxRows)

\* The positions of the rows that are the first of their instance key.
FirstOfKey(rows) ==
    { i \in 1..Len(rows) : \A j \in 1..(i - 1) : rows[j].instance_key # rows[i].instance_key }

\* out is the subsequence of rows at the positions `picked`, in order.
IsSubsequenceAt(out, rows, picked) ==
    \E f \in [1..Len(out) -> 1..Len(rows)] :
        /\ { f[k] : k \in 1..Len(out) } = picked
        /\ \A k \in 1..Len(out) : out[k] = rows[f[k]]
        /\ \A k \in 1..(Len(out) - 1) : f[k] < f[k + 1]

\* C12: dedupe_instances_by_key returns the first row of each instance key, in
\* the order those rows have in the input; no key is repeated in the output and
\* no key of the input is missing from it.
C12_DedupeKeepsFirst ==
    (fn.name = "dedupe_instances_by_key" /\ fn.out # None) =>
        LET rows == fn.arg
            out  == fn.out[1]
        IN  /\ IsSubsequenceAt(out, rows, FirstOfKey(rows))
            /\ \A k, l \in 1..Len(out) : out[k].instance_key = out[l].instance_key => k = l
            /\ { out[k].instance_key : k \in 1..Len(out) }
                   = { rows[i].instance_key : i \in 1..Len(rows) }

\* C12 witness: the input repeats a key with a different row between two keys,
\* and the output has the two first rows.
C12_Witness ==
    /\ fn.name = "dedupe_instances_by_key" /\ fn.out # None
    /\ Len(fn.arg) = 3 /\ Len(fn.out[1]) = 2
    /\ fn.arg[1].instance_key = fn.arg[2].instance_key
    /\ fn.arg[1] # fn.arg[2]
    /\ fn.out[1] = <<fn.arg[1], fn.arg[3]>>

\* C13: deduplicating the result of a deduplication gives that result again.
C13_DedupeIdempotent ==
    (fn.name = "dedupe_instances_by_key" /\ fn.again # None) => fn.again = fn.out

\* C13 witness: a list with a key three times was deduplicated twice.
C13_Witness ==
    /\ fn.name = "dedupe_instances_by_key" /\ fn.again # None
    /\ Len(fn.arg) = 3 /\ Len(fn.out[1]) = 1
    /\ \A i \in 1..3 : fn.arg[i].instance_key = fn.arg[1].instance_key

\* The rows a table holds for one site.
SiteRowsOf(tbl, site_url) == { a \in tbl : a.site_url = site_url }

\* The asset rows a committed replace stores for its list `rows`.
Tagged(rows, scan_id) ==
    { [site_url |-> rows[i].site_url, instance_key |-> rows[i].instance_key,
       scan_id |-> scan_id] : i \in 1..Len(rows) }

\* Slot t's replace_site_assets commits in this step.
ReplaceCommits(t) == pc[t] = "txn_commit" /\ pc'[t] = "returned"

C14_Step(t) ==
    ReplaceCommits(t) =>
        SiteRowsOf(assets', call[t].site_url) = Tagged(call[t].rows, ScanId(t))

\* C14: when replace_site_assets commits for a site, whatever rows the site had
\* from an earlier replace, the rows the site has afterwards are exactly the
\* rows of this call, tagged with this call's scan id.
C14_SecondReplaceWins == [][\A t \in StoreSlots : C14_Step(t)]_vars

\* C14 witness: the site was given two rows, then, in a call that began after
\* the first had committed, one row of a key the first call also had; only that
\* row remains, tagged with the second scan id.
C14_Witness ==
    /\ wrote[1] /\ wrote[2]
    /\ call[1].op = "replace" /\ call[2].op = "replace"
    /\ call[2].site_url = call[1].site_url
    /\ call[2].after = {1}
    /\ Len(call[1].rows) = 2 /\ Len(call[2].rows) = 1
    /\ call[1].rows[1].instance_key # call[1].rows[2].instance_key
    /\ call[2].rows[1] = call[1].rows[1]
    /\ assets = Tagged(call[2].rows, ScanId(2))

C15_Step(site_url) ==
    (\/ SiteRowsOf(assets', site_url) # SiteRowsOf(assets, site_url)
     \/ SiteRowsOf(scan_meta', site_url) # SiteRowsOf(scan_meta, site_url)) =>
        \E t \in StoreSlots :
            /\ txn.owner = t /\ call[t].site_url = site_url
            /\ pc[t] \in {"txn_commit", "delete_commit"} /\ wrote'[t]

\* C15: the asset rows and the scan-meta record of a site change only in the
\* commit of a replace or a delete of that very site, however the calls for
\* different sites interleave.
C15_OtherSitesUntouched == [][\A site_url \in Sites : C15_Step(site_url)]_vars

\* C15 witness: two replaces of different sites were both under way before
\* either committed, both committed, and each site holds its own call's rows.
C15_Witness ==
    /\ wrote[1] /\ wrote[2]
    /\ call[1].op = "replace" /\ call[2].op = "replace"
    /\ call[1].site_url # call[2].site_url
    /\ call[1].after = {} /\ call[2].after = {}
    /\ call[1].rows # <<>> /\ call[2].rows # <<>>
    /\ SiteRowsOf(assets, call[1].site_url) = Tagged(call[1].rows, ScanId(1))
    /\ SiteRowsOf(assets, call[2].site_url) = Tagged(call[2].rows, ScanId(2))

\* The rows of slot t's replace repeat a key, or use a key that a row of
\* another site already has.
KeyCollides(t) ==
    \/ \E i, j \in 1..Len(call[t].rows) :
          i # j /\ call[t].rows[i].instance_key = call[t].rows[j].instance_key
    \/ \E i \in 1..Len(call[t].rows) : \E a \in assets :
          a.site_url # call[t].site_url /\ a.instance_key = call[t].rows[i].instance_key

C16_Step(t) ==
    /\ (pc[t] = "txn_insert" /\ pc'[t] # pc[t] /\ KeyCollides(t)) => exc'[t] # None
    /\ (exc[t] = None /\ exc'[t] # None) =>
          /\ assets' = assets /\ scan_meta' = scan_meta
          /\ txn' = NoTxn \/ txn' = txn
          /\ txn'.owner # t
          /\ pc'[t] = "except"

\* C16: a replace whose rows collide on the instance key fails, and in the step
\* in which a replace or delete fails, at whatever point, the asset rows and
\* scan-meta records stay as they are, its transaction no longer exists and the
\* error reaches the caller; a failed call has written nothing.
C16_FailedReplaceRollsBack ==
    /\ [](\A t \in StoreSlots : exc[t] # None => ~wrote[t])
    /\ [][\A t \in StoreSlots : C16_Step(t)]_vars

\* C16 witness: the site had a row; a replace with a repeated key failed on the
\* UNIQUE constraint and the site's row and scan-meta record are still those of
\* the first call.
C16_Witness ==
    /\ wrote[1] /\ call[1].op = "replace" /\ Len(call[1].rows) = 1
    /\ call[2].op = "replace" /\ call[2].site_url = call[1].site_url
    /\ Len(call[2].rows) = 2 /\ call[2].rows[1] = call[2].rows[2]
    /\ call[2].rows[1] # call[1].rows[1]
    /\ pc[2] = "except"
    /\ exc[2] = Some([kind |-> "sqlite3.Error",
                      message |-> "UNIQUE constraint failed: assets.instance_key"])
    /\ assets = Tagged(call[1].rows, ScanId(1))
    /\ scan_meta = UpsertMeta({}, call[1].site_url, ScanId(1))

\* The site's rows are the whole row set of one committed scan, the one
\* scan-meta names; a site without a scan-meta record has no rows.
C17_OneScan(site_url) ==
    IF SiteRowsOf(scan_meta, site_url) = {}
    THEN SiteRowsOf(assets, site_url) = {}
    ELSE \E u \in StoreSlots :
            /\ wrote[u] /\ call[u].op = "replace" /\ call[u].site_url = site_url
            /\ SiteRowsOf(scan_meta, site_url) = UpsertMeta({}, site_url, ScanId(u))
            /\ SiteRowsOf(assets, site_url) = Tagged(call[u].rows, ScanId(u))

C17_Step(t) ==
    ReplaceCommits(t) =>
        /\ SiteRowsOf(scan_meta', call[t].site_url) = UpsertMeta({}, call[t].site_url, ScanId(t))
        /\ SiteRowsOf(assets', call[t].site_url) \subseteq Tagged(call[t].rows, ScanId(t))

\* C17: whatever scans of a site overlap, the site's rows are at all times the
\* complete row set of a single committed scan and scan-meta names that scan;
\* each commit makes the committing scan that one, so the last to commit wins.
C17_LastCommitWins ==
    /\ [](\A site_url \in Sites : C17_OneScan(site_url))
    /\ [][\A t \in StoreSlots : C17_Step(t)]_vars

\* C17 witness: two scans of one site with different keys were both at the
\* persistence step before either committed; both committed, and the site has
\* the rows of the first slot, which committed last, and none of the other's.
C17_Witness ==
    /\ wrote[1] /\ wrote[2]
    /\ call[1].op = "replace" /\ call[2].op = "replace"
    /\ call[1].site_url = call[2].site_url
    /\ call[1].after = {} /\ call[2].after = {}
    /\ Len(call[1].rows) = 1 /\ Len(call[2].rows) = 1
    /\ call[1].rows[1].instance_key # call[2].rows[1].instance_key
    /\ assets = Tagged(call[1].rows, ScanId(1))
    /\ scan_meta = UpsertMeta({}, call[1].site_url, ScanId(1))

C18_Step(t) ==
    /\ (pc[t] = "delete_commit" /\ pc'[t] = "respond") =>
          /\ SiteRowsOf(assets', call[t].site_url) = {}
          /\ SiteRowsOf(scan_meta', call[t].site_url) = {}
          /\ result'[t][1].removed_assets = Cardinality(SiteRowsOf(assets, call[t].site_url))
          /\ result'[t][1].removed_meta = (SiteRowsOf(scan_meta, call[t].site_url) # {})
    /\ (pc[t] = "respond" /\ pc'[t] # pc[t]) =>
          /\ pc'[t] \in {"resp_404", "resp_200"}
          /\ pc'[t] = "resp_404" <=>
                (result[t][1].removed_assets = 0 /\ ~result[t][1].removed_meta)

\* C18: a committed delete leaves the site without asset rows and without a
\* scan-meta record and returns as removed_assets the number of rows the site
\* had; the handler answers 404 exactly when the site had neither rows nor a
\* scan-meta record, and the removal result otherwise.
C18_DeleteRemovesAndCounts == [][\A t \in StoreSlots : C18_Step(t)]_vars

\* C18 witness: a site with two rows was deleted; the answer is the result
\* with removed_assets = 2 and the tables are empty.
C18_Witness ==
    /\ wrote[1] /\ call[1].op = "replace"
    /\ Cardinality(Tagged(call[1].rows, ScanId(1))) = 2
    /\ call[2].op = "delete" /\ call[2].site_url = call[1].site_url
    /\ pc[2] = "resp_200"
    /\ result[2] = Some([site_url |-> call[2].site_url, removed_assets |-> 2, removed_meta |-> TRUE])
    /\ assets = {} /\ scan_meta = {}

\* Slot t ran the only scan of its site in this run of the program, and the
\* job has ended.
OnlyScanOfSite(t) ==
    /\ pc[t] = "finished" /\ site[t] # None
    /\ \A u \in Threads \ {t} : site[u] # site[t]

\* C19: once the only scan of a site has ended, done or failed, the site's
\* scan-meta record holds that scan's id and that scan's status.
C19_MetaNamesLatestScan ==
    \A t \in Threads :
        OnlyScanOfSite(t) =>
            \E m \in scan_meta :
                /\ m.site_url = site[t][1]
                /\ m.last_scan_id = ScanId(t)
                /\ m.last_status = jobs[JobId(t)].status

\* The candidate passes the filters of the call: it normalises, the patterns
\* let it through and its resource type is selected.
PassesFilters(ref, a) ==
    LET normalized == normalize_identity_url(urljoin(a.page_url, ref.candidate))
    IN  /\ normalized # None
        /\ a.include_pattern # None => UrlString(normalized[1]) \in a.include_pattern[1]
        /\ a.exclude_pattern # None => UrlString(normalized[1]) \notin a.exclude_pattern[1]
        /\ a.selected_types # None =>
              classify_resource_type(normalized[1].path, ref.tag, ref.attr_name, ref.node)
                  \in a.selected_types[1]

\* The position in refs of the k-th candidate among those at `passing`.
NthOf(passing, k) ==
    CHOOSE r \in passing : Cardinality({ q \in passing : q <= r }) = k

\* C20: the instances of a page are its candidates that pass the filters, in
\* document order; the ordinal of each is its rank among the instances of the
\* same attribute name and normalised URL up to it, so the k of a pair get
\* 1..k; and no two instances of the page have the same identity key.
C20_OccurrenceOrdinals ==
    (fn.name = "extract_asset_instances" /\ fn.out # None) =>
        LET a       == fn.arg
            out     == fn.out[1]
            refs    == PageRefs(a.nodes, 1)
            passing == { r \in 1..Len(refs) : PassesFilters(refs[r], a) }
        IN  /\ Len(out) = Cardinality(passing)
            /\ \A k \in 1..Len(out) :
                  LET ref == refs[NthOf(passing, k)]
                  IN  /\ out[k].dom_path = ref.dom_path
                      /\ out[k].asset_attr = ref.attr_name
                      /\ out[k].asset_url
                            = UrlString(normalize_identity_url(urljoin(a.page_url, ref.candidate))[1])
                      /\ out[k].attr_occurrence =
                            Cardinality({ j \in 1..k : /\ out[j].asset_attr = out[k].asset_attr
                                                       /\ out[j].asset_url = out[k].asset_url })
            /\ \A k, l \in 1..Len(out) : out[k].instance_key = out[l].instance_key => k = l

\* C20 witness: with only images selected, an img, a script and an img refer
\* to the same URL through src; the script's reference is filtered out and the
\* two img references get ordinals 1 and 2.
C20_Witness ==
    /\ fn.name = "extract_asset_instances" /\ fn.out # None
    /\ fn.arg.selected_types = Some({"images"})
    /\ Len(fn.arg.nodes) = 3
    /\ fn.arg.nodes[1].tag = "img" /\ fn.arg.nodes[2].tag = "script"
    /\ fn.arg.nodes[3] = fn.arg.nodes[1]
    /\ fn.arg.nodes[2].attrs = fn.arg.nodes[1].attrs
    /\ Len(fn.out[1]) = 2
    /\ fn.out[1][1].asset_url = "http://a.test/r" /\ fn.out[1][2].asset_url = "http://a.test/r"
    /\ fn.out[1][1].attr_occurrence = 1 /\ fn.out[1][2].attr_occurrence = 2
    /\ fn.out[1][2].dom_path = "/[document][1]/html[1]/body[1]/img[2]"

\* The segment the claim gives element i: its tag and its rank among the
\* siblings of that tag.
SegmentOf(tree, i) ==
    "/" \o tree[i].tag \o "["
        \o ToString(1 + Cardinality({ j \in 1..(i - 1) : /\ tree[j].parent = tree[i].parent
                                                          /\ tree[j].tag = tree[i].tag }))
        \o "]"

\* C21: in every parsed tree the path of an element is the path of its parent
\* (the path of <body> for a top element) followed by tag[rank], rank being
\* one plus the number of preceding siblings of the same tag; and two
\* different elements of the tree never get the same path.
C21_DomPathsRankedAndDistinct ==
    (fn.name = "build_dom_path" /\ fn.out # None) =>
        LET tree == fn.arg
            out  == fn.out[1]
        IN  /\ \A i \in 1..Len(tree) :
                  out[i] = (IF tree[i].parent = 0 THEN "/[document][1]/html[1]/body[1]"
                            ELSE out[tree[i].parent]) \o SegmentOf(tree, i)
            /\ \A i, j \in 1..Len(tree) : out[i] = out[j] => i = j

\* C21 witness: two img elements inside one div, and an img beside the div.
C21_Witness ==
    /\ fn.name = "build_dom_path" /\ fn.out # None
    /\ fn.arg = << [tag |-> "div", parent |-> 0], [tag |-> "img", parent |-> 1],
                   [tag |-> "img", parent |-> 1] >>
    /\ fn.out[1][2] = "/[document][1]/html[1]/body[1]/div[1]/img[1]"
    /\ fn.out[1][3] = "/[document][1]/html[1]/body[1]/div[1]/img[2]"

\* A valid http or https URL: the scheme, a host and a port urlsplit accepts.
ValidHttpUrl(u) ==
    /\ u.scheme \in {"http", "https"}
    /\ u.host \notin {"", "[::1"}
    /\ u.port \in {"", "80", "443"}

\* The port literal of the scheme's default port.
DefaultPortOf(scheme) == IF scheme = "http" THEN "80" ELSE "443"

\* u1 and u2 differ at most by fragment, by host letter-casing and by the
\* scheme's default port written out or left out.
SameUpToVariants(u1, u2) ==
    /\ u1.scheme = u2.scheme /\ u1.path = u2.path /\ u1.query = u2.query
    /\ Lower(u1.host) = Lower(u2.host)
    /\ \/ u1.port = u2.port
       \/ {u1.port, u2.port} = {"", DefaultPortOf(u1.scheme)}

\* C22 (the claim as stated): two valid http/https URLs that differ only by
\* fragment, by default port against no port, or by host letter-casing have
\* the same normalised URL.
C22_VariantsNormalizeEqual ==
    (fn.name = "normalize_identity_url" /\ fn.out # None) =>
        ((ValidHttpUrl(fn.arg[1]) /\ ValidHttpUrl(fn.arg[2])
              /\ SameUpToVariants(fn.arg[1], fn.arg[2]))
            => fn.out[1][1] = fn.out[1][2])

\* normalize rejects u: its scheme is not http(s), its host is missing or
\* does not parse, or its port literal is invalid.
Rejectable(u) ==
    \/ Lower(u.scheme) \notin {"http", "https"}
    \/ u.host \in {"", "[::1"}
    \/ u.port = "blank"

Extracted == fn.name = "_extract_instances" /\ fn.out # None

\* What _extract_instances gives for the file without its unparsable lines.
WithoutUnparsable(k) ==
    _extract_instances([k EXCEPT !.lines = SelectSeq(@, LAMBDA line : ~Unparsable(line))])

\* C25: a line of the crawl output that is no parsable JSON is skipped: the
\* rows, the pages handled and the outcome (no exception of its own) are those
\* of the same file without the line, so it adds nothing and every later line
\* is processed as if it were not there.
C25_UnparsableLineSkipped ==
    Extracted =>
        LET k == ("robots" :> fn.out[1].robots) @@ fn.arg
        IN  fn.out[1] = ("robots" :> fn.out[1].robots) @@ WithoutUnparsable(k)

\* C25 witness: an unparsable line, then a page whose three instances are found.
C25_Witness ==
    /\ Extracted
    /\ Len(fn.arg.lines) = 2
    /\ fn.arg.lines[1].kind = "garbage"
    /\ fn.arg.lines[2].kind = "entry"
    /\ Len(fn.out[1].rows) = 3
    /\ fn.out[1].raised = None

\* C26: with respect_robots false no robots policy is fetched and is_allowed
\* answers true for every page, the pages the site's policy disallows
\* included: no page is refused.
C26_DisabledGateAllowsAll ==
    (Extracted /\ ~fn.arg.respect_robots) =>
        /\ fn.out[1].robots.fetches = 0
        /\ fn.out[1].denied = {}
        /\ \A url \in DisallowedPages : is_allowed(fn.out[1].robots, url)

\* C26 witness: the gate is disabled, the site's policy disallows /p1, and
\* the instances of /p1 are extracted.
C26_Witness ==
    /\ Extracted /\ ~fn.arg.respect_robots
    /\ fn.arg.fetch = "policy"
    /\ "http://a.test/p1" \in DisallowedPages
    /\ "http://a.test/p1" \in fn.out[1].extracted
    /\ Len(fn.out[1].rows) > 0

\* The fetch of robots.txt, the parsing of it or the evaluation of the
\* policy failed.
PolicyFailed(fetch) == fetch # "policy"

\* C27 (the claim as stated): with robots respected the policy is fetched
\* once, at gate construction, and when the fetch, the parsing or a later
\* evaluation fails every page is allowed.
C27_FailedFetchAllowsAll ==
    (Extracted /\ fn.arg.respect_robots) =>
        /\ fn.out[1].robots.fetches = 1
        /\ PolicyFailed(fn.arg.fetch) =>
              /\ fn.out[1].denied = {}
              /\ \A url \in DisallowedPages : is_allowed(fn.out[1].robots, url)

\* C30: whatever the crawl output and max_pages, the distinct pages of the
\* site on which the robots gate is consulted or extraction runs are at most
\* max_pages.
C30_PageCap ==
    Extracted =>
        Cardinality(fn.out[1].consulted \cup fn.out[1].extracted) <= fn.arg.max_pages

\* C30 witness: max_pages is 1 and the file holds two pages of the site; the
\* first is handled, the second stops the loop.
C30_Witness ==
    /\ Extracted
    /\ fn.arg.max_pages = 1
    /\ Len(fn.arg.lines) = 2
    /\ fn.out[1].seen_pages = {"http://a.test/p1", "http://a.test/p2"}
    /\ fn.out[1].consulted = {"http://a.test/p1"}
    /\ fn.out[1].extracted = {"http://a.test/p1"}

\* The data path of run_scan has run to the db phase without an exception.
Persisted == fn.name = "run_scan" /\ fn.out # None /\ fn.out[1].raised = None

\* The crawl found one page, with the same script reference twice and one
\* stylesheet link, and the probe map holds the stylesheet's URL only.
Scenario ==
    /\ Persisted
    /\ Len(fn.arg.k.lines) = 1
    /\ Len(fn.arg.k.lines[1].nodes) = 3
    /\ fn.arg.k.lines[1].nodes[1].tag = "script"
    /\ fn.arg.k.lines[1].nodes[2] = fn.arg.k.lines[1].nodes[1]
    /\ fn.arg.k.lines[1].nodes[3].tag = "link"
    /\ DOMAIN fn.out[1].probe_map = {"http://a.test/b.css"}

\* C24: in that scenario there are exactly three instances, two js ones of
\* the script URL with ordinals 1 and 2 and different keys and one css one
\* with ordinal 1; the table holds three rows, the css row with the status
\* and content type of the probe map, both js rows with null status, content
\* type and content length.
C24_EndToEndScenario ==
    Scenario =>
        LET instances == fn.out[1].instances
            table     == fn.out[1].assets
            js        == { a \in table : a.asset_url = "http://a.test/a.js" }
            css       == { a \in table : a.asset_url = "http://a.test/b.css" }
            probe     == fn.out[1].probe_map["http://a.test/b.css"]
        IN  /\ Len(instances) = 3
            /\ instances[1].resource_type = "js" /\ instances[1].attr_occurrence = 1
            /\ instances[2].resource_type = "js" /\ instances[2].attr_occurrence = 2
            /\ instances[1].asset_url = instances[2].asset_url
            /\ instances[1].instance_key # instances[2].instance_key
            /\ instances[3].resource_type = "css" /\ instances[3].attr_occurrence = 1
            /\ Cardinality(table) = 3 /\ table = js \cup css
            /\ { a.instance_key : a \in table }
                  = { instances[i].instance_key : i \in 1..3 }
            /\ \A a \in css : /\ a.status_code = probe.status_code
                               /\ a.content_type = probe.content_type
            /\ \A a \in js : /\ a.status_code = None /\ a.content_type = None
                              /\ a.content_length = None

\* C24 witness: the scenario with the probe line {status 200, type text/css}
\* for the stylesheet, which the css row carries.
C24_Witness ==
    /\ Scenario
    /\ Len(fn.arg.httpx_lines) = 1
    /\ \E a \in fn.out[1].assets :
          /\ a.resource_type = "css"
          /\ a.status_code = Some(200) /\ a.content_type = Some("text/css")
          /\ a.scan_id = Uuid4(2)
    /\ Cardinality({ a \in fn.out[1].assets : a.resource_type = "js" }) = 2

\* The columns an instance row has before the merge.
InstanceColumns ==
    {"site_url", "page_url", "asset_url", "dom_path", "asset_attr", "attr_occurrence",
     "instance_key", "resource_type"}

\* C29: the merge neither adds nor drops an instance and leaves the columns
\* of each as they were; each row gets the status code, content type and
\* content length the probe map holds for its asset URL, and null for all
\* three when the map has no entry for it.
C29_MergeCarriesProbe ==
    Persisted =>
        LET deduped   == fn.out[1].deduped
            rows      == fn.out[1].rows
            probe_map == fn.out[1].probe_map
        IN  /\ Len(rows) = Len(deduped)
            /\ \A i \in 1..Len(rows) :
                  /\ \A c \in InstanceColumns : rows[i][c] = deduped[i][c]
                  /\ IF rows[i].asset_url \in DOMAIN probe_map
                     THEN /\ rows[i].status_code = probe_map[rows[i].asset_url].status_code
                          /\ rows[i].content_type = probe_map[rows[i].asset_url].content_type
                          /\ rows[i].content_length = probe_map[rows[i].asset_url].content_length
                     ELSE /\ rows[i].status_code = None
                          /\ rows[i].content_type = None
                          /\ rows[i].content_length = None

\* C29 witness: httpx reported the stylesheet under another spelling of its
\* URL; the css row carries that line's values and a row of another asset
\* carries none.
C29_Witness ==
    /\ Persisted
    /\ Len(fn.arg.httpx_lines) = 1
    /\ fn.arg.httpx_lines[1].input = None
    /\ \E i, j \in 1..Len(fn.out[1].rows) :
          /\ fn.out[1].rows[i].asset_url = "http://a.test/b.css"
          /\ fn.out[1].rows[i].status_code = Some(500)
          /\ fn.out[1].rows[i].content_length = Some(0)
          /\ fn.out[1].rows[j].asset_url \notin DOMAIN fn.out[1].probe_map
          /\ fn.out[1].rows[j].status_code = None

\* The phases slot t has reported to the progress callback.
ReportedPhases(t) == { reports[t][i][1] : i \in 1..Len(reports[t]) }

\* C28: httpx is invoked in a scan if and only if the scan has at least one
\* deduplicated row: it is never invoked without rows, and a scan that reports
\* the db phase has invoked it, after reporting the probe phase, exactly when
\* it has rows.  A scan whose extraction returns no rows goes straight on to
\* report the db phase, without a probe report and without failing.
C28_Inv ==
    \A t \in Threads :
        /\ "httpx" \in invoked[t] => (nrows[t] > 0 /\ "probe" \in ReportedPhases(t))
        /\ "db" \in ReportedPhases(t) =>
              /\ "httpx" \in invoked[t] <=> nrows[t] > 0
              /\ "probe" \in ReportedPhases(t) <=> nrows[t] > 0

C28_Step ==
    \A t \in Threads :
        (pc[t] = "extract" /\ pc'[t] # "extract" /\ exc'[t] = None /\ nrows'[t] = 0) =>
            /\ pc'[t] = "report_db"
            /\ invoked'[t] = invoked[t]
            /\ reports'[t] = reports[t]

C28_ProbeIffAssets == []C28_Inv /\ [][C28_Step]_vars

\* C28 witness: a scan without rows ended done, having reported the db phase
\* and never the probe phase, with httpx not invoked.
C28_Witness ==
    \E t \in Threads :
        /\ pc[t] = "finished" /\ jobs[JobId(t)].status = "done"
        /\ nrows[t] = 0
        /\ "db" \in ReportedPhases(t) /\ "probe" \notin ReportedPhases(t)
        /\ "httpx" \notin invoked[t] /\ "katana" \in invoked[t]

\* The arguments of the scan without the crawl records whose page URL
\* normalises to a host other than the site's.
WithoutOtherHosts(k) ==
    [k EXCEPT !.lines =
        SelectSeq(@, LAMBDA line :
            LET raw == extract_page_url(line)
            IN  IF raw = None THEN TRUE
                ELSE IF normalize_identity_url(raw[1]) = None THEN TRUE
                ELSE normalize_identity_url(raw[1])[1].host = k.site_host)]

\* The page URLs of the crawl records whose host is, or is not, the host h.
PageUrlsOfHost(k, h, same) ==
    { UrlString(normalize_identity_url(extract_page_url(k.lines[i])[1])[1]) :
        i \in { j \in 1..Len(k.lines) :
                  /\ extract_page_url(k.lines[j]) # None
                  /\ normalize_identity_url(extract_page_url(k.lines[j])[1]) # None
                  /\ (normalize_identity_url(extract_page_url(k.lines[j])[1])[1].host = h) = same } }

\* C31: every row a scan persists has the scan's normalised site origin as
\* site_url and the page URL of a crawl record of the origin's host, never
\* of another host; and the crawl records of other hosts contribute nothing:
\* the scan's instances, rows and table are those of the same crawl output
\* without them, so they give no rows and take no place under max_pages.
C31_RowsOfTheSiteOnly ==
    (fn.name = "run_scan" /\ fn.out # None) =>
        LET k      == fn.arg.k
            origin == normalize_site_origin(k.base_url)[1]
        IN  /\ \A a \in fn.out[1].assets :
                  /\ a.site_url = OriginString(origin)
                  /\ a.page_url \in PageUrlsOfHost(k, origin.host, TRUE)
                  /\ a.page_url \notin PageUrlsOfHost(k, origin.host, FALSE)
            /\ fn.out[1] = ScanData(WithoutOtherHosts(k), fn.arg.httpx_lines, Uuid4(2))

\* C31 witness: max_pages is 1, the crawl output holds a page of b.test and
\* then a page of the site; the three instances of the site's page are
\* persisted under the origin http://a.test of the base URL
\* http://A.test/start?q=1#top.
C31_Witness ==
    /\ Persisted
    /\ fn.arg.k.max_pages = 1
    /\ Len(fn.arg.k.lines) = 2
    /\ fn.arg.k.lines[1].endpoint = Some(MkUrl("http", "b.test", "", "/p1", "", ""))
    /\ fn.arg.k.lines[2].endpoint = Some(MkUrl("http", "a.test", "", "/p1", "", ""))
    /\ Cardinality(fn.out[1].assets) = 3
    /\ \A a \in fn.out[1].assets :
          a.site_url = "http://a.test" /\ a.page_url = "http://a.test/p1"

\* C32: whatever the crawl output, repeated records of one page included,
\* no two rows _extract_instances returns have the same instance key, so
\* dedupe_instances_by_key returns the list as it is.
C32_ExtractRowsHaveDistinctKeys ==
    Extracted =>
        LET rows == fn.out[1].rows
        IN  /\ \A i, j \in 1..Len(rows) : rows[i].instance_key = rows[j].instance_key => i = j
            /\ dedupe_instances_by_key(rows) = rows

\* C32 witness: the crawl output holds the page /p1 twice, the second time
\* under another spelling and with another body; of the second record's two
\* instances the one the first record gave already is left out.
C32_Witness ==
    /\ Extracted
    /\ Len(fn.arg.lines) = 2
    /\ fn.arg.lines[1].endpoint = Some(MkUrl("http", "a.test", "", "/p1", "", ""))
    /\ fn.arg.lines[2].url = Some(MkUrl("http", "A.test", "", "/p1", "", "top"))
    /\ fn.out[1].seen_pages = {"http://a.test/p1"}
    /\ fn.out[1].extracted = {"http://a.test/p1"}
    /\ Len(fn.out[1].rows) = 4
    /\ fn.out[1].rows[4].asset_url = "http://a.test/r"

\* The crawl output without the lines that are no JSON object: the blank
\* ones, those json.loads rejects and those it parses to another value.
WithoutNonObjects(k) ==
    [k EXCEPT !.lines = SelectSeq(@, LAMBDA line : ~Unparsable(line) /\ line.kind # "json_scalar")]

\* C33 (the claim as stated): no line of the crawl output makes the
\* extraction raise; a line that is unparsable, or valid JSON that is no
\* object, is dropped and the lines after it are processed: the rows are
\* those of the same output without such lines.
C33_NoLineFailsExtraction ==
    Extracted =>
        /\ fn.out[1].raised = None
        /\ fn.out[1].rows
              = _extract_instances(("robots" :> fn.out[1].robots) @@ WithoutNonObjects(fn.arg)).rows

\* The categories of the enumeration.
ResourceTypes == {"css", "js", "images", "fonts", "video", "docs"}

\* The categories whose suffix table holds a suffix of the lowercased path.
ExtensionCategories(path) ==
    { EXTENSIONS[i][1] : i \in { j \in 1..Len(EXTENSIONS) : EndsWith(Lower(path), EXTENSIONS[j][2]) } }

\* No heuristic of tag and attributes applies: the tag is none of those the
\* function knows, or it is a link without rel values.
NoHeuristicApplies(a) ==
    \/ a.tag \notin {"script", "img", "video", "audio", "track", "link"}
    \/ a.tag = "link" /\ a.node.attrs["rel"] = <<>>

\* C34: classify_resource_type returns one of the six categories for every
\* input; when the path has an extension of the suffix table the category
\* is the one of that extension, whatever tag, attribute and element;
\* without such an extension and without an applicable heuristic it is docs,
\* and a category other than docs comes from the heuristics only then.
C34_ClassifyTotalExtensionFirst ==
    (fn.name = "classify_resource_type" /\ fn.out # None) =>
        LET a   == fn.arg
            out == fn.out[1]
        IN  /\ out \in ResourceTypes
            /\ Cardinality(ExtensionCategories(a.path)) <= 1
            /\ ExtensionCategories(a.path) # {} => out \in ExtensionCategories(a.path)
            /\ (ExtensionCategories(a.path) = {} /\ NoHeuristicApplies(a)) => out = "docs"

\* C34 witness: a script element whose src ends in .PNG is classed images,
\* by the extension and not by the tag.
C34_Witness ==
    /\ fn.name = "classify_resource_type" /\ fn.out # None
    /\ fn.arg.path = "/X.PNG" /\ fn.arg.tag = "script" /\ fn.arg.attr = "src"
    /\ fn.out[1] = "images"

\* The base URLs b1 and b2 differ at most in path, query, fragment and the
\* letter-casing of the host.
SameSite(b1, b2) ==
    b1.scheme = b2.scheme /\ Lower(b1.host) = Lower(b2.host) /\ b1.port = b2.port

\* C35: two base URLs that differ only in path, query, fragment or host
\* letter-casing have the same site origin, made of the scheme, the
\* lower-cased host and the port; and a scan started from the second, once
\* it has replaced the site's rows, leaves none of the rows a scan started
\* from the first had persisted: the table holds the second scan's rows only.
C35_OriginIsHostBased ==
    (fn.name = "normalize_site_origin" /\ fn.out # None
        /\ SameSite(fn.arg.first, fn.arg.second)) =>
        LET out == fn.out[1]
        IN  /\ out.origins[1] = out.origins[2]
            /\ out.origins[1] = [scheme |-> fn.arg.first.scheme,
                                  host |-> Lower(fn.arg.first.host),
                                  port |-> PortNumber(fn.arg.first.port)]
            /\ \A a \in out.replaced : a.scan_id = Uuid4(4)
            /\ Cardinality(out.replaced) = fn.arg.nrows

\* C35 witness: a scan of http://a.test:8080/ stored MaxRows rows; a scan
\* of http://A.test:8080/p?q=1#top that found no rows removed them all.
C35_Witness ==
    /\ fn.name = "normalize_site_origin" /\ fn.out # None
    /\ fn.arg.first = MkUrl("http", "a.test", "8080", "/", "", "")
    /\ fn.arg.second = MkUrl("http", "A.test", "8080", "/p", "q=1", "top")
    /\ fn.arg.nrows = 0
    /\ Cardinality(fn.out[1].stored) = MaxRows
    /\ fn.out[1].replaced = {}

\* C36 (the claim as stated): the summary a scan computes after its rows
\* were committed counts exactly the rows it wrote, whatever other scans and
\* deletes of the site commit in the meantime.
C36_SummaryIsOfOwnRows ==
    \A t \in StoreSlots :
        (call[t].op = "replace" /\ pc[t] = "report_done") =>
            result[t][1].instance_count = nrows[t]

\* C37: in every state of the store that scans and deletes produce, a site
\* with at least one asset row has exactly one scan-meta row, and every
\* asset row of the site carries the scan id that row names as last scan.
C37_AssetsHaveTheirMeta ==
    \A site_url \in Sites :
        { a \in assets : a.site_url = site_url } # {} =>
            /\ Cardinality({ m \in scan_meta : m.site_url = site_url }) = 1
            /\ \A a \in assets : \A m \in scan_meta :
                  (a.site_url = site_url /\ m.site_url = site_url) => a.scan_id = m.last_scan_id

\* C37 witness: two scans of one site committed one after the other, the
\* site was deleted in neither; its rows and its scan-meta row carry the id
\* of the second scan.
C37_Witness ==
    /\ wrote[1] /\ wrote[2]
    /\ call[1].op = "replace" /\ call[2].op = "replace"
    /\ call[1].site_url = call[2].site_url
    /\ call[2].after = {1}
    /\ \E a \in assets : a.site_url = call[2].site_url /\ a.scan_id = ScanId(2)
    /\ \E m \in scan_meta : m.site_url = call[2].site_url /\ m.last_scan_id = ScanId(2)

\* The lines of k that come before line i.
Before(k, i) == [k EXCEPT !.lines = SubSeq(@, 1, i - 1)]

\* Line i brings the (max_pages + 1)-th distinct page of the site's host.
GoesOverCap(k, i) ==
    /\ Cardinality(PageUrlsOfHost(Before(k, i + 1), k.site_host, TRUE)) = k.max_pages + 1
    /\ Cardinality(PageUrlsOfHost(Before(k, i), k.site_host, TRUE)) = k.max_pages

\* C38: the line that brings the (max_pages + 1)-th distinct page of the
\* site ends the extraction: the rows returned, and the pages extracted,
\* are those of the lines before it, so neither that line nor any later
\* one, a later record of a page seen within the cap included, adds a row.
C38_OverCapLineEndsExtraction ==
    Extracted =>
        \A i \in 1..Len(fn.arg.lines) :
            GoesOverCap(fn.arg, i) =>
                LET upto == _extract_instances(("robots" :> fn.out[1].robots) @@ Before(fn.arg, i))
                IN  /\ fn.out[1].rows = upto.rows
                    /\ fn.out[1].extracted = upto.extracted
                    /\ fn.out[1].raised = upto.raised

\* C38 witness: max_pages is 1 and the crawl output holds /p1, then /p2,
\* then /p1 again with another body; the rows are the three of the first
\* record, and the img of the third record is not among them.
C38_Witness ==
    /\ Extracted
    /\ fn.arg.max_pages = 1
    /\ Len(fn.arg.lines) = 3
    /\ fn.arg.lines[1].endpoint = Some(MkUrl("http", "a.test", "", "/p1", "", ""))
    /\ fn.arg.lines[2].endpoint = Some(MkUrl("http", "a.test", "", "/p2", "", ""))
    /\ fn.arg.lines[3].url = Some(MkUrl("http", "A.test", "", "/p1", "", "top"))
    /\ GoesOverCap(fn.arg, 2)
    /\ Len(fn.out[1].rows) = 3
    /\ fn.out[1].seen_pages = {"http://a.test/p1", "http://a.test/p2"}

====
